---- MODULE Spec2Model ----
(***************************************************************************)
(* Package resolution and ordering engine of TheRock's build tools:        *)
(* build_tools/install_packages.py (the "script") and                      *)
(* build_tools/packaging/linux/package_load.py (the "loader").            *)
(* Text is modelled as sequences of one-character strings, so that the    *)
(* anchored regular expressions, strip(), lower() and the lexical sort    *)
(* are computed character by character, as Python computes them.          *)
(***************************************************************************)
EXTENDS Integers, Sequences, FiniteSets, TLC

VARIABLES
    pc,                     \* position of the run
    variant,                \* "script" (install_packages.py) or "loader" (package_load.py)
    os_family,              \* result of detect_os_family()
    use_rpm,                \* dependency format flag of the graph builder
    version_flag,           \* --version
    composite_flag,         \* --composite
    amdgpu_family,          \* LoadPackages.amdgpu_family ("" when not given)
    root_is_list,           \* whether the root of package.json is a list
    packages,               \* the manifest: json.load of package.json
    hash_seed,              \* PYTHONHASHSEED: fixes the iteration order of a set of str
    dest_dir_exists,        \* os.path.isdir(dest_dir)
    listing,                \* os.listdir(dest_dir), in the order the OS enumerates
    ci,                     \* classifier: index of the next manifest entry
    composite_packages,     \* classifier: composite names, in append order
    non_composite_packages, \* classifier: non-composite names, in append order
    subset,                 \* the package list handed to the graph builder
    graph_keys,             \* dict keys of graph, in insertion order
    graph,                  \* graph[name] = deps
    visited,                \* dfs_sort: visited set
    sorted_list,            \* dfs_sort: sorted_list
    stack,                  \* dfs_sort: the activation records of visit()
    ki,                     \* dfs_sort: index of the next key of "for pkg in graph"
    sorted_non,             \* sorted non-composite names (script)
    sorted_composite,       \* sorted composite names (script)
    sort_run,               \* which of the script's two dfs_sort calls is running
    bases,                  \* the sorted base names the planner walks
    bi,                     \* planner: index of the next base
    base,                   \* matcher: the base being matched
    fi,                     \* matcher: index of the next file of all_files
    all_files,              \* matcher: the .deb/.rpm files of the listing
    matched,                \* matcher: matched paths
    final_install_list,     \* planner: the plan
    plan_owner,             \* ghost: index in bases of the base that contributed each plan entry
    diagnostics,            \* planner: the printed / logged diagnostics, in order
    probe,                  \* input and result of a single is_versioned_package call
    root_is_empty,          \* the root of package.json holds nothing to iterate ([], {}, "")
    commands,               \* the package-manager commands run so far, in order
    ii,                     \* installer: index of the next path of the plan
    packages_arch,          \* _load_packages_arch: packages_arch
    pattern,                \* is_versioned_package: pattern
    run_results,            \* what the i-th subprocess.run of the run does
    os_arg,                 \* the value of --os on the command line, empty when not given
    os_type,                \* __main__: args.os or detect_os_family()
    os_release_exists,      \* whether /etc/os-release can be opened
    os_release_lines,       \* the lines of /etc/os-release
    system_name,            \* platform.system()
    args,                   \* build_package.py: the parsed command line
    gfxarch_names,          \* the package names check_for_gfxarch answers True for
    config,                 \* build_package.py: the PackageConfig, once constructed
    generated,              \* the control / spec files generated so far, in order
    gi                      \* build_package.py: index of the next package of pkg_list

vars == <<pc, variant, os_family, use_rpm, version_flag, composite_flag,
          amdgpu_family, root_is_list, packages, hash_seed, dest_dir_exists,
          listing, ci,
          composite_packages, non_composite_packages, subset, graph_keys, graph,
          visited, sorted_list, stack, ki, sorted_non, sorted_composite,
          sort_run, bases, bi,
          base, fi, all_files, matched, final_install_list, plan_owner,
          diagnostics, probe, root_is_empty, commands, ii,
          packages_arch, pattern, run_results, os_arg, os_type,
          os_release_exists, os_release_lines, system_name,
          args, gfxarch_names, config, generated, gi>>

hostVars == <<os_release_exists, os_release_lines, system_name>>
inputVars == <<variant, use_rpm, version_flag, composite_flag, amdgpu_family,
               root_is_list, root_is_empty, packages, hash_seed, dest_dir_exists,
               listing, run_results, os_arg, hostVars>>
configVars == <<inputVars, os_family, os_type>>
classifierVars == <<ci, composite_packages, non_composite_packages>>
sorterVars == <<subset, graph_keys, graph, visited, sorted_list, stack, ki>>
sortedVars == <<sorted_non, sorted_composite, sort_run>>
matcherVars == <<base, fi, all_files, matched>>
plannerVars == <<bases, bi, final_install_list, plan_owner, diagnostics>>
installVars == <<commands, ii>>
archVars == <<packages_arch, pattern>>
buildInputs == <<args, gfxarch_names>>
buildVars == <<buildInputs, config, generated, gi>>

----------------------------------------------------------------------------
(* Bounds of the model.                                                    *)

MaxPkgs == 3        \* longest manifest handed to the sorter
MaxEntries == 2     \* longest manifest handed to the classifier
MaxFiles == 3       \* most entries of the artifacts directory

----------------------------------------------------------------------------
(* Text helpers.                                                           *)

Range(s) == {s[i] : i \in DOMAIN s}

Last(s) == s[Len(s)]

\* Characters of the model in ascending code point order (Python compares
\* strings by code point).
CharOrder ==
    <<" ", "-", ".", "/", "0", "1", "2", "7", "E", "F", "S", "T", "Y", "_",
      "a", "b", "c", "d", "e", "g", "l", "m", "n", "o", "p", "r", "s", "t",
      "u", "v", "x", "y">>

Ord(c) == CHOOSE i \in DOMAIN CharOrder : CharOrder[i] = c

Digits == {"0", "1", "2", "7"}

Whitespace == {" "}

\* str.strip(): leading and trailing whitespace removed.
RECURSIVE LStrip(_)
LStrip(s) ==
    IF s # <<>> /\ s[1] \in Whitespace THEN LStrip(Tail(s)) ELSE s

RECURSIVE RStrip(_)
RStrip(s) ==
    IF s # <<>> /\ s[Len(s)] \in Whitespace
    THEN RStrip(SubSeq(s, 1, Len(s) - 1))
    ELSE s

Strip(s) == RStrip(LStrip(s))

LowerChar(c) ==
    CASE c = "Y" -> "y"
      [] c = "E" -> "e"
      [] c = "S" -> "s"
      [] c = "T" -> "t"
      [] c = "F" -> "f"
      [] c = "U" -> "u"
      [] c = "L" -> "l"
      [] c = "D" -> "d"
      [] c = "I" -> "i"
      [] c = "B" -> "b"
      [] c = "G" -> "g"
      [] OTHER -> c

\* str.lower()
Lower(s) == [i \in DOMAIN s |-> LowerChar(s[i])]

\* str.startswith
StartsWith(s, prefix) ==
    Len(prefix) <= Len(s) /\ SubSeq(s, 1, Len(prefix)) = prefix

\* str.endswith
EndsWith(s, suffix) ==
    Len(suffix) <= Len(s) /\ SubSeq(s, Len(s) - Len(suffix) + 1, Len(s)) = suffix

\* sub in s
Contains(s, sub) ==
    \E i \in 1..(Len(s) - Len(sub) + 1) : SubSeq(s, i, i + Len(sub) - 1) = sub

\* s < t for Python strings: the first differing code point decides, and a
\* proper prefix is smaller.
LexLess(s, t) ==
    \E k \in 1..(Len(t)) :
        /\ k <= Len(s) + 1
        /\ SubSeq(s, 1, k - 1) = SubSeq(t, 1, k - 1)
        /\ \/ k = Len(s) + 1
           \/ (k <= Len(s) /\ Ord(s[k]) < Ord(t[k]))

\* os.path.join(dest_dir, f) for a directory entry f
PathJoin(dir, f) ==
    IF dir # <<>> /\ Last(dir) # "/" THEN dir \o <<"/">> \o f ELSE dir \o f

\* os.path.basename(path): what follows the last "/"
Basename(path) ==
    LET slashes == {i \in DOMAIN path : path[i] = "/"}
        from == IF slashes = {} THEN 1
                ELSE 1 + CHOOSE i \in slashes : \A j \in slashes : j <= i
    IN SubSeq(path, from, Len(path))

\* Seqs(S, n): the sequences over S of length at most n.
Seqs(S, n) == UNION {[1..k -> S] : k \in 0..n}

IsInjective(s) == \A i, j \in DOMAIN s : i # j => s[i] # s[j]

----------------------------------------------------------------------------
(* Manifest records.  A record of package.json: hasPackage tells whether   *)
(* the "Package" key is present.                                           *)

Pkg(name, composite, deb, rpm, gfx) ==
    [hasPackage |-> TRUE, Package |-> name,
     hasComposite |-> TRUE, Composite |-> composite,
     DEBDepends |-> deb, RPMRequires |-> rpm, Gfxarch |-> gfx,
     disablepackaging |-> FALSE]

NoText == <<>>

----------------------------------------------------------------------------
(* Dependency graph builder (build_dependency_graph /                      *)
(* LoadPackages._build_dependency_graph).                                  *)

DepKeyDebOnly(pkg, rpm) == pkg.DEBDepends

\* dep_key = "RPMRequires" if use_rpm else "DEBDepends"; pkg.get(dep_key, [])
DepKey(pkg, rpm) == IF rpm THEN pkg.RPMRequires ELSE pkg.DEBDepends

\* pkg_names = {p["Package"] for p in packages if "Package" in p}
PkgNames(pkgs) == {pkgs[i].Package : i \in {j \in DOMAIN pkgs : pkgs[j].hasPackage}}

\* pkg["Package"] raises KeyError for an entry without the key.
GraphRaises(pkgs) == \E i \in DOMAIN pkgs : ~pkgs[i].hasPackage

FilterDepsUnfiltered(deps, names) == deps

\* The same comprehension over set(deps): the order of the kept names
\* would follow the hash seed.
FilterDepsInSetOrder(deps, names) ==
    LET kept == SelectSeq(deps, LAMBDA d : d \in names)
    IN IF hash_seed = 1
       THEN [i \in DOMAIN kept |-> kept[Len(kept) + 1 - i]]
       ELSE kept

\* deps = [d for d in pkg.get(dep_key, []) if d in pkg_names]
FilterDeps(deps, names) == SelectSeq(deps, LAMBDA d : d \in names)

\* The keys of the dict in insertion order: a key keeps the place of its
\* first assignment.
RECURSIVE GraphKeyOrder(_)
GraphKeyOrder(pkgs) ==
    IF pkgs = <<>> THEN <<>>
    ELSE LET front == GraphKeyOrder(SubSeq(pkgs, 1, Len(pkgs) - 1))
             name == Last(pkgs).Package
         IN IF name \in Range(front) THEN front ELSE Append(front, name)

\* graph[name] = deps: a later entry of the same name overwrites the value.
GraphValue(pkgs, rpm, name) ==
    LET i == CHOOSE k \in DOMAIN pkgs :
                 /\ pkgs[k].Package = name
                 /\ \A m \in DOMAIN pkgs : pkgs[m].Package = name => m <= k
    IN FilterDeps(DepKey(pkgs[i], rpm), PkgNames(pkgs))

BuildDependencyGraph(pkgs, rpm) ==
    [keys |-> GraphKeyOrder(pkgs),
     deps |-> [name \in Range(GraphKeyOrder(pkgs)) |-> GraphValue(pkgs, rpm, name)]]

BuildGraph ==
    /\ pc = "build"
    /\ IF GraphRaises(subset)
       THEN /\ pc' = "error"
            /\ UNCHANGED <<graph_keys, graph>>
       ELSE /\ pc' = "dfs"
            /\ graph_keys' = BuildDependencyGraph(subset, use_rpm).keys
            /\ graph' = BuildDependencyGraph(subset, use_rpm).deps
    /\ visited' = {}
    /\ sorted_list' = <<>>
    /\ stack' = <<>>
    /\ ki' = 1
    /\ UNCHANGED <<configVars, buildVars, classifierVars, subset, sortedVars, matcherVars,
                   plannerVars, probe, installVars, archVars>>

----------------------------------------------------------------------------
(* Topological sorter (dfs_sort / LoadPackages._dfs_sort).  A frame of     *)
(* stack is one activation of visit(): its pkg and the index of the next   *)
(* dep of "for dep in graph.get(pkg, [])".                                 *)

\* graph.get(pkg, [])
GraphGet(p) == IF p \in DOMAIN graph THEN graph[p] ELSE <<>>

AlreadyVisitedNever(p) == FALSE

\* if pkg in visited: return
AlreadyVisited(p) == p \in visited

PrependSorted(list, p) == <<p>> \o list

\* sorted_list.append(pkg)
AppendSorted(list, p) == Append(list, p)

\* The effect of calling visit(p) with the frames rest below it.
Visit(p, rest) ==
    IF AlreadyVisited(p)
    THEN /\ stack' = rest
         /\ UNCHANGED visited
    ELSE /\ visited' = visited \cup {p}
         /\ stack' = Append(rest, [pkg |-> p, i |-> 1])

\* for pkg in graph: visit(pkg)
DfsOuter ==
    /\ pc = "dfs"
    /\ stack = <<>>
    /\ ki <= Len(graph_keys)
    /\ Visit(graph_keys[ki], <<>>)
    /\ ki' = ki + 1
    /\ UNCHANGED <<pc, sorted_list>>

\* for dep in graph.get(pkg, []): visit(dep)
DfsDescend ==
    /\ pc = "dfs"
    /\ stack # <<>>
    /\ LET top == Last(stack)
           deps == GraphGet(top.pkg)
       IN /\ top.i <= Len(deps)
          /\ Visit(deps[top.i],
                   [stack EXCEPT ![Len(stack)] = [pkg |-> top.pkg, i |-> top.i + 1]])
    /\ UNCHANGED <<pc, sorted_list, ki>>

\* sorted_list.append(pkg), and visit() returns
DfsAppend ==
    /\ pc = "dfs"
    /\ stack # <<>>
    /\ LET top == Last(stack)
       IN /\ top.i > Len(GraphGet(top.pkg))
          /\ sorted_list' = AppendSorted(sorted_list, top.pkg)
    /\ stack' = SubSeq(stack, 1, Len(stack) - 1)
    /\ UNCHANGED <<pc, visited, ki>>

\* return sorted_list
DfsReturn ==
    /\ pc = "dfs"
    /\ stack = <<>>
    /\ ki > Len(graph_keys)
    /\ pc' = "sorted"
    /\ UNCHANGED <<visited, sorted_list, stack, ki>>

DfsStep ==
    /\ \/ DfsOuter
       \/ DfsDescend
       \/ DfsAppend
       \/ DfsReturn
    /\ UNCHANGED <<configVars, buildVars, classifierVars, subset, graph_keys, graph,
                   sortedVars, matcherVars, plannerVars, probe, installVars, archVars>>

----------------------------------------------------------------------------
(* Manifest loading and package classifier (list_composite_packages /      *)
(* LoadPackages._load_packages, LoadPackages.list_composite_packages).     *)

\* pkg.get("Package", "")
PackageGet(pkg) == IF pkg.hasPackage THEN pkg.Package ELSE NoText

\* pkg.get("Composite", "")
CompositeGet(pkg) == IF pkg.hasComposite THEN pkg.Composite ELSE NoText

IsCompositeExact(pkg) == CompositeGet(pkg) = <<"y", "e", "s">>

\* str(pkg.get("Composite", "")).strip().lower() == "yes"
IsComposite(pkg) == Lower(Strip(CompositeGet(pkg))) = <<"y", "e", "s">>

NameIsSetAlways(name) == TRUE

\* if pkg_name: / if not name: continue
NameIsSet(name) == name # NoText

\* The root of the manifest is tested: the loader raises ValueError for a
\* root that is not a list, the script warns and returns two empty lists.
\* The loader's constructor also indexes every entry by pkg["Package"]
\* (pkg_map), which raises KeyError for an entry without that key.
ConstructorRaises ==
    /\ variant = "loader"
    /\ (~root_is_list \/ \E i \in DOMAIN packages : ~packages[i].hasPackage)

LoadManifest ==
    /\ pc = "load"
    /\ pc' = IF ConstructorRaises THEN "error"
             ELSE IF root_is_list THEN "classify"
             ELSE "classified"
    /\ diagnostics' = IF ~root_is_list /\ variant = "script"
                      THEN Append(diagnostics, [kind |-> "not_a_list", base |-> NoText])
                      ELSE diagnostics
    /\ ci' = 1
    /\ composite_packages' = <<>>
    /\ non_composite_packages' = <<>>
    /\ UNCHANGED <<configVars, buildVars, sorterVars, sortedVars, matcherVars, bases, bi,
                   final_install_list, plan_owner, probe, installVars, archVars>>

\* One iteration of "for pkg in data" / "for pkg in self.packages".
ClassifyEntry ==
    /\ pc = "classify"
    /\ ci <= Len(packages)
    /\ LET pkg == packages[ci]
           pkg_name == Strip(PackageGet(pkg))
       IN IF ~NameIsSet(pkg_name)
          THEN UNCHANGED <<composite_packages, non_composite_packages>>
          ELSE IF IsComposite(pkg)
          THEN /\ composite_packages' = Append(composite_packages, pkg_name)
               /\ UNCHANGED non_composite_packages
          ELSE /\ non_composite_packages' = Append(non_composite_packages, pkg_name)
               /\ UNCHANGED composite_packages
    /\ ci' = ci + 1
    /\ UNCHANGED <<pc, configVars, buildVars, sorterVars, sortedVars, matcherVars,
                   plannerVars, probe, installVars, archVars>>

\* return non_composite_packages, composite_packages
ClassifyReturn ==
    /\ pc = "classify"
    /\ ci > Len(packages)
    /\ pc' = "classified"
    /\ UNCHANGED <<configVars, buildVars, classifierVars, sorterVars, sortedVars,
                   matcherVars, plannerVars, probe, installVars, archVars>>

----------------------------------------------------------------------------
(* Filename patterns (is_versioned_package).  A pattern is a sequence of   *)
(* elements: a literal character, \d+ or an optional character; re.search  *)
(* with a leading ^ matches it against a prefix of the filename.           *)

Lit(c) == [t |-> "lit", c |-> c]
Opt(c) == [t |-> "opt", c |-> c]
DigitRun == [t |-> "digits", c |-> ""]

\* re.escape(text): every character matches itself only.
Escape(text) == [i \in DOMAIN text |-> Lit(text[i])]

\* \d+\.\d+\.\d+
Version3 == <<DigitRun, Lit("."), DigitRun, Lit("."), DigitRun>>

\* Whether elements pi.. of pat match s from position si on.
RECURSIVE MatchFrom(_, _, _, _)
MatchFrom(pat, pi, s, si) ==
    IF pi > Len(pat) THEN TRUE
    ELSE LET e == pat[pi]
         IN CASE e.t = "lit" ->
                    /\ si <= Len(s)
                    /\ s[si] = e.c
                    /\ MatchFrom(pat, pi + 1, s, si + 1)
              [] e.t = "opt" ->
                    \/ /\ si <= Len(s)
                       /\ s[si] = e.c
                       /\ MatchFrom(pat, pi + 1, s, si + 1)
                    \/ MatchFrom(pat, pi + 1, s, si)
              [] e.t = "digits" ->
                    \E k \in si..Len(s) :
                        /\ \A m \in si..k : s[m] \in Digits
                        /\ MatchFrom(pat, pi + 1, s, k + 1)

\* re.search(pattern, filename) is not None, for a pattern anchored by ^
Search(pat, filename) == MatchFrom(pat, 1, filename, 1)

\* self.pkg_map = {pkg["Package"]: pkg ...}; pkg_map.get(name, {}): the last
\* manifest entry of that name, if any.
PkgMapHas(name) == \E i \in DOMAIN packages : packages[i].Package = name

PkgMapGet(name) ==
    packages[CHOOSE i \in DOMAIN packages :
                 /\ packages[i].Package = name
                 /\ \A j \in DOMAIN packages : packages[j].Package = name => j <= i]

\* str(pkg.get("Gfxarch", "False")).lower() == "true"
GfxArchFlag(name) ==
    PkgMapHas(name) /\ Lower(PkgMapGet(name).Gfxarch) = <<"t", "r", "u", "e">>

\* A suffix rule that does not look at the name of the base.
AmdgpuSuffixOfAnyName(b) ==
    IF variant = "loader" /\ GfxArchFlag(b) /\ amdgpu_family # NoText
    THEN amdgpu_family
    ELSE NoText

\* amdgpu_suffix: the family token the pattern carries, "" for none.  The
\* script has no architecture family at all.
AmdgpuSuffix(b) ==
    IF /\ variant = "loader"
       /\ GfxArchFlag(b)
       /\ amdgpu_family # NoText
       /\ ~Contains(Lower(b), <<"d", "e", "v", "e", "l">>)
    THEN amdgpu_family
    ELSE NoText

PlainPatternUnderscoreRequired(b) ==
    IF AmdgpuSuffix(b) # NoText
    THEN Escape(b) \o <<Lit("-")>> \o Escape(AmdgpuSuffix(b)) \o <<Lit("_")>> \o Version3
    ELSE Escape(b) \o <<Lit("_")>> \o Version3

\* The script's non-versioned pattern: ^base_\d+\.\d+\.\d+
\* The loader's: ^base_?\d+\.\d+\.\d+ or ^base-arch_?\d+\.\d+\.\d+
PlainPattern(b) ==
    IF variant = "script"
    THEN Escape(b) \o <<Lit("_")>> \o Version3
    ELSE IF AmdgpuSuffix(b) # NoText
    THEN Escape(b) \o <<Lit("-")>> \o Escape(AmdgpuSuffix(b)) \o <<Opt("_")>> \o Version3
    ELSE Escape(b) \o <<Opt("_")>> \o Version3

\* ^base\d+\.\d+\.\d+_\d+\.\d+\.\d+ or ^base\d+\.\d+\.\d+-arch_\d+\.\d+\.\d+
VersionedPattern(b) ==
    IF AmdgpuSuffix(b) # NoText
    THEN Escape(b) \o Version3 \o <<Lit("-")>> \o Escape(AmdgpuSuffix(b))
             \o <<Lit("_")>> \o Version3
    ELSE Escape(b) \o Version3 \o <<Lit("_")>> \o Version3

IsVersionedPackage(filename, b, flag) ==
    Search(IF flag THEN VersionedPattern(b) ELSE PlainPattern(b), filename)

\* A single call is_versioned_package(filename, base, flag, arch_flag) of
\* the loader, and the classification the sort key makes of the same file.
Probe ==
    /\ pc = "probe"
    /\ probe' = [probe EXCEPT
                    !.matched = IsVersionedPackage(probe.filename, probe.base, probe.flag),
                    !.versioned = IsVersionedPackage(probe.filename, probe.base, TRUE)]
    /\ pc' = "probed"
    /\ UNCHANGED <<configVars, buildVars, classifierVars, sorterVars, sortedVars,
                   matcherVars, plannerVars, installVars, archVars>>

----------------------------------------------------------------------------
(* Artifact matcher (find_packages_for_base).                              *)

DestDir == <<"d">>

DebExt == <<".", "d", "e", "b">>
RpmExt == <<".", "r", "p", "m">>

\* f.endswith((".deb", ".rpm"))
HasPackageExt(f) == EndsWith(f, DebExt) \/ EndsWith(f, RpmExt)

\* The paths appended for one file of all_files.
MatchesOfFileVersionedOnly(f, b, flag) ==
    IF StartsWith(f, b) /\ IsVersionedPackage(f, b, TRUE)
    THEN <<PathJoin(DestDir, f)>>
    ELSE <<>>

\* A matcher that takes every file the prefix test lets through.
MatchesOfFilePrefixOnly(f, b, flag) ==
    IF StartsWith(f, b) THEN <<PathJoin(DestDir, f)>> ELSE <<>>

MatchesOfFile(f, b, flag) ==
    IF ~StartsWith(f, b) THEN <<>>
    ELSE IF flag
    THEN (IF IsVersionedPackage(f, b, TRUE) THEN <<PathJoin(DestDir, f)>> ELSE <<>>)
    ELSE (IF IsVersionedPackage(f, b, FALSE) THEN <<PathJoin(DestDir, f)>> ELSE <<>>)
         \o (IF IsVersionedPackage(f, b, TRUE) THEN <<PathJoin(DestDir, f)>> ELSE <<>>)

\* key=lambda x: (not is_versioned_package(os.path.basename(x), base, True), x)
\* Tuples compare by their first component (False < True), then by the path.
KeyLessPlainFirst(x, y, b) ==
    LET nx == IsVersionedPackage(Basename(x), b, TRUE)
        ny == IsVersionedPackage(Basename(y), b, TRUE)
    IN \/ (~nx /\ ny)
       \/ (nx = ny /\ LexLess(x, y))

KeyLess(x, y, b) ==
    LET nx == ~IsVersionedPackage(Basename(x), b, TRUE)
        ny == ~IsVersionedPackage(Basename(y), b, TRUE)
    IN \/ (~nx /\ ny)
       \/ (nx = ny /\ LexLess(x, y))

\* list.sort(key=...): a stable sort; x is inserted after every element
\* that is not greater than it.
RECURSIVE InsertSorted(_, _, _)
InsertSorted(sorted, x, b) ==
    IF sorted = <<>> THEN <<x>>
    ELSE IF KeyLess(x, Last(sorted), b)
         THEN Append(InsertSorted(SubSeq(sorted, 1, Len(sorted) - 1), x, b), Last(sorted))
         ELSE Append(sorted, x)

\* A matcher that returns the paths in the order the directory was listed.
KeepListingOrder(paths, b) == paths

RECURSIVE SortMatched(_, _)
SortMatched(paths, b) ==
    IF paths = <<>> THEN <<>>
    ELSE InsertSorted(SortMatched(SubSeq(paths, 1, Len(paths) - 1), b), Last(paths), b)

\* all_files = [f for f in os.listdir(dest_dir) if f.endswith((".deb", ".rpm"))]
FindStart ==
    /\ pc = "find"
    /\ all_files' = SelectSeq(listing, HasPackageExt)
    /\ matched' = <<>>
    /\ fi' = 1
    /\ pc' = "find_loop"
    /\ UNCHANGED <<configVars, buildVars, classifierVars, sorterVars, sortedVars, base,
                   plannerVars, probe, installVars, archVars>>

\* One iteration of "for f in all_files".
FindFile ==
    /\ pc = "find_loop"
    /\ fi <= Len(all_files)
    /\ matched' = matched \o MatchesOfFile(all_files[fi], base, version_flag)
    /\ fi' = fi + 1
    /\ UNCHANGED <<pc, configVars, buildVars, classifierVars, sorterVars, sortedVars, base,
                   all_files, plannerVars, probe, installVars, archVars>>

\* matched.sort(key=...); return matched
FindReturn ==
    /\ pc = "find_loop"
    /\ fi > Len(all_files)
    /\ matched' = SortMatched(matched, base)
    /\ pc' = "found"
    /\ UNCHANGED <<configVars, buildVars, classifierVars, sorterVars, sortedVars, base, fi,
                   all_files, plannerVars, probe, installVars, archVars>>

----------------------------------------------------------------------------
(* Specification of the sorter alone: the graph builder and dfs_sort run   *)
(* on every manifest subset within the bounds.                             *)

NameA == <<"a">>
NameB == <<"b">>
NameC == <<"c">>
SortNames == {NameA, NameB, NameC}

\* Declared dependency lists: none, one name, and two lists of two names.
DepLists ==
    {<<>>, <<NameA>>, <<NameB>>, <<NameC>>, <<NameB, NameC>>, <<NameC, NameA>>}

SortEntries ==
    {Pkg(n, NoText, d, d, NoText) : n \in SortNames, d \in DepLists}

InitSort ==
    /\ pc = "build"
    /\ variant = "loader"
    /\ os_family = "unknown"
    /\ use_rpm = FALSE
    /\ version_flag = FALSE
    /\ composite_flag = FALSE
    /\ amdgpu_family = NoText
    /\ root_is_list = TRUE
    /\ packages = <<>>
    /\ root_is_empty = (packages = <<>>)
    /\ hash_seed = 0
    /\ dest_dir_exists = TRUE
    /\ listing = <<>>
    /\ ci = 1
    /\ composite_packages = <<>>
    /\ non_composite_packages = <<>>
    /\ subset \in Seqs(SortEntries, MaxPkgs)
    /\ graph_keys = <<>>
    /\ graph = <<>>
    /\ visited = {}
    /\ sorted_list = <<>>
    /\ stack = <<>>
    /\ ki = 1
    /\ sorted_non = <<>>
    /\ sorted_composite = <<>>
    /\ sort_run = "non"
    /\ bases = <<>>
    /\ bi = 1
    /\ base = NoText
    /\ fi = 1
    /\ all_files = <<>>
    /\ matched = <<>>
    /\ final_install_list = <<>>
    /\ plan_owner = <<>>
    /\ diagnostics = <<>>
    /\ probe = <<>>
    /\ commands = <<>>
    /\ ii = 1
    /\ packages_arch = <<>>
    /\ pattern = <<>>
    /\ run_results = <<>>
    /\ os_arg = NoText
    /\ os_type = ""
    /\ os_release_exists = TRUE
    /\ os_release_lines = <<>>
    /\ system_name = NoText
    /\ args = <<>>
    /\ gfxarch_names = {}
    /\ config = <<>>
    /\ generated = <<>>
    /\ gi = 1

NextSort == BuildGraph \/ DfsStep

SpecSort == InitSort /\ [][NextSort]_vars

----------------------------------------------------------------------------
(* Properties of the sorter.                                               *)

Keys == Range(graph_keys)

IndexOf(s, x) == CHOOSE i \in DOMAIN s : s[i] = x

\* The names reachable from p along at least one and at most n edges.
RECURSIVE ReachWithin(_, _)
ReachWithin(p, n) ==
    IF n = 0 THEN {}
    ELSE LET direct == Range(GraphGet(p))
         IN direct \cup UNION {ReachWithin(d, n - 1) : d \in direct}

\* Every direct and transitive dependency of p.
DepsOf(p) == ReachWithin(p, Cardinality(Keys))

Acyclic == \A p \in Keys : p \notin DepsOf(p)

\* C1: for an acyclic graph the sorter's output places every direct and
\* every transitive dependency of a package at a strictly smaller index
\* than the package itself.
C1_DependenciesFirst ==
    (pc = "sorted" /\ Acyclic) =>
        \A p \in Keys : \A d \in DepsOf(p) :
            /\ p \in Range(sorted_list)
            /\ d \in Range(sorted_list)
            /\ IndexOf(sorted_list, d) < IndexOf(sorted_list, p)

\* An acyclic chain p -> q -> r in which r is only a transitive dependency
\* of p, and the manifest lists p first and r last.
C1_Witness ==
    /\ pc = "sorted"
    /\ Acyclic
    /\ \E p, q, r \in Keys :
           /\ q \in Range(GraphGet(p))
           /\ r \in Range(GraphGet(q))
           /\ r \notin Range(GraphGet(p))
           /\ IndexOf(graph_keys, p) < IndexOf(graph_keys, q)
           /\ IndexOf(graph_keys, q) < IndexOf(graph_keys, r)
           /\ IndexOf(sorted_list, r) < IndexOf(sorted_list, p)

\* C2: for every graph, cyclic or not, the sorter's output contains every
\* key of the graph exactly once and no name that is not a key.
C2_OutputIsPermutationOfKeys ==
    pc = "sorted" =>
        /\ Range(sorted_list) = Keys
        /\ IsInjective(sorted_list)
        /\ Len(sorted_list) = Cardinality(Keys)

\* A mutual dependency between two packages, one of which also names a
\* package that is not in the subset.
C2_Witness ==
    /\ pc = "sorted"
    /\ \E p, q \in Keys :
           /\ p # q
           /\ q \in Range(GraphGet(p))
           /\ p \in Range(GraphGet(q))
    /\ \E i \in DOMAIN subset :
           Range(subset[i].DEBDepends) \ Keys # {}
    /\ Len(sorted_list) = Cardinality(Keys)

RECURSIVE FrameWork(_)
FrameWork(frames) ==
    IF frames = <<>> THEN 0
    ELSE (Len(GraphGet(Last(frames).pkg)) + 2 - Last(frames).i)
         + FrameWork(SubSeq(frames, 1, Len(frames) - 1))

RECURSIVE UnvisitedWork(_)
UnvisitedWork(names) ==
    IF names = {} THEN 0
    ELSE LET p == CHOOSE x \in names : TRUE
         IN (Len(GraphGet(p)) + 2) + UnvisitedWork(names \ {p})

\* The steps dfs_sort still has to take: keys not yet started, deps not yet
\* walked in the open activations, and the whole work of unvisited keys.
SortMeasure ==
    (IF pc = "dfs" THEN 1 ELSE 0)
    + (Len(graph_keys) + 1 - ki)
    + FrameWork(stack)
    + UnvisitedWork(Keys \ visited)

\* C3: for every finite graph, with or without a cycle, the sorter
\* terminates and returns a list without raising: every step of dfs_sort
\* strictly decreases a non-negative measure, a step is always possible
\* until it returns, the recursion is never deeper than the number of keys,
\* and no error is raised.
C3_SorterTerminates ==
    /\ [][pc = "dfs" => SortMeasure' < SortMeasure]_vars
    /\ [](pc = "dfs" =>
             /\ SortMeasure > 0
             /\ Len(stack) <= Cardinality(Keys)
             /\ ENABLED DfsStep)
    /\ [](pc # "error")

\* A graph with a self-dependency and a cycle through three packages,
\* sorted to the end.
C3_Witness ==
    /\ pc = "sorted"
    /\ \E p \in Keys : p \in Range(GraphGet(p))
    /\ \E p, q, r \in Keys :
           /\ Cardinality({p, q, r}) = 3
           /\ q \in Range(GraphGet(p))
           /\ r \in Range(GraphGet(q))
           /\ p \in Range(GraphGet(r))
    /\ Len(sorted_list) = 3

----------------------------------------------------------------------------
(* Specification of the classifier alone: every manifest of up to          *)
(* MaxEntries records whose names and Composite fields are drawn from the  *)
(* values below, and a root that is not a list.                            *)

ClassNames ==
    {<<"a">>, <<"b">>, <<" ", "a", " ">>, <<" ">>, <<>>}

CompositeValues ==
    {<<>>, <<"y", "e", "s">>, <<"Y", "e", "s">>, <<" ", "Y", "E", "S", " ">>,
     <<"n", "o">>, <<"y", " ", "e", "s">>}

ClassEntries ==
    {[hasPackage |-> TRUE, Package |-> n, hasComposite |-> TRUE, Composite |-> c,
      DEBDepends |-> <<>>, RPMRequires |-> <<>>, Gfxarch |-> NoText,
      disablepackaging |-> FALSE] :
        n \in ClassNames, c \in CompositeValues}
    \cup
    {[hasPackage |-> FALSE, Package |-> NoText, hasComposite |-> TRUE, Composite |-> c,
      DEBDepends |-> <<>>, RPMRequires |-> <<>>, Gfxarch |-> NoText,
      disablepackaging |-> FALSE] :
        c \in {<<>>, <<"y", "e", "s">>}}
    \cup
    {[hasPackage |-> TRUE, Package |-> n, hasComposite |-> FALSE, Composite |-> NoText,
      DEBDepends |-> <<>>, RPMRequires |-> <<>>, Gfxarch |-> NoText,
      disablepackaging |-> FALSE] :
        n \in ClassNames}

InitClassify ==
    /\ pc = "load"
    /\ variant \in {"script", "loader"}
    /\ os_family = "unknown"
    /\ use_rpm = FALSE
    /\ version_flag = FALSE
    /\ composite_flag = FALSE
    /\ amdgpu_family = NoText
    /\ root_is_list \in BOOLEAN
    /\ packages \in (IF root_is_list THEN Seqs(ClassEntries, MaxEntries) ELSE {<<>>})
    /\ root_is_empty \in (IF root_is_list THEN {packages = <<>>} ELSE BOOLEAN)
    /\ hash_seed = 0
    /\ dest_dir_exists = TRUE
    /\ listing = <<>>
    /\ ci = 1
    /\ composite_packages = <<>>
    /\ non_composite_packages = <<>>
    /\ subset = <<>>
    /\ graph_keys = <<>>
    /\ graph = <<>>
    /\ visited = {}
    /\ sorted_list = <<>>
    /\ stack = <<>>
    /\ ki = 1
    /\ sorted_non = <<>>
    /\ sorted_composite = <<>>
    /\ sort_run = "non"
    /\ bases = <<>>
    /\ bi = 1
    /\ base = NoText
    /\ fi = 1
    /\ all_files = <<>>
    /\ matched = <<>>
    /\ final_install_list = <<>>
    /\ plan_owner = <<>>
    /\ diagnostics = <<>>
    /\ probe = <<>>
    /\ commands = <<>>
    /\ ii = 1
    /\ packages_arch = <<>>
    /\ pattern = <<>>
    /\ run_results = <<>>
    /\ os_arg = NoText
    /\ os_type = ""
    /\ os_release_exists = TRUE
    /\ os_release_lines = <<>>
    /\ system_name = NoText
    /\ args = <<>>
    /\ gfxarch_names = {}
    /\ config = <<>>
    /\ generated = <<>>
    /\ gi = 1

NextClassify == LoadManifest \/ ClassifyEntry \/ ClassifyReturn

SpecClassify == InitClassify /\ [][NextClassify]_vars

----------------------------------------------------------------------------
(* Properties of the classifier.  The statements below describe trimming   *)
(* and case folding by the shape of the text, not by Strip and Lower.      *)

AllBlank(s) == \A i \in DOMAIN s : s[i] \in Whitespace

\* The name of an entry is present and non-blank.
Named(pkg) == pkg.hasPackage /\ ~AllBlank(pkg.Package)

\* t is s without its leading and trailing whitespace.
IsTrimOf(t, s) ==
    \E i \in 1..(Len(s) + 1) : \E j \in 0..Len(s) :
        /\ t = SubSeq(s, i, j)
        /\ \A k \in 1..(i - 1) : s[k] \in Whitespace
        /\ \A k \in (j + 1)..Len(s) : s[k] \in Whitespace
        /\ t # <<>> => (t[1] \notin Whitespace /\ t[Len(t)] \notin Whitespace)

TrimmedName(pkg) ==
    CHOOSE t \in {SubSeq(pkg.Package, i, j) :
                      i \in 1..(Len(pkg.Package) + 1), j \in 0..Len(pkg.Package)} :
        IsTrimOf(t, pkg.Package)

\* The Composite field is "yes" up to surrounding whitespace and case.
SaysYes(pkg) ==
    /\ pkg.hasComposite
    /\ \E t \in {SubSeq(pkg.Composite, i, j) :
                      i \in 1..(Len(pkg.Composite) + 1), j \in 0..Len(pkg.Composite)} :
           /\ IsTrimOf(t, pkg.Composite)
           /\ Len(t) = 3
           /\ t[1] \in {"y", "Y"}
           /\ t[2] \in {"e", "E"}
           /\ t[3] \in {"s", "S"}

NamedEntries == {i \in DOMAIN packages : Named(packages[i])}

NamedNames == {TrimmedName(packages[i]) : i \in NamedEntries}

\* The trimmed names of the entries that satisfy keep(_), in manifest order.
RECURSIVE NamesWhere(_, _)
NamesWhere(keep(_), n) ==
    IF n = 0 THEN <<>>
    ELSE IF keep(packages[n])
         THEN Append(NamesWhere(keep, n - 1), TrimmedName(packages[n]))
         ELSE NamesWhere(keep, n - 1)

\* No two entries carry the same Package value as written in the manifest
\* (the data model's unique-name invariant).
UniqueRawNames ==
    \A i, j \in DOMAIN packages :
        (i # j /\ packages[i].hasPackage /\ packages[j].hasPackage)
            => packages[i].Package # packages[j].Package

\* C9 as stated: for every manifest the two returned sets are disjoint and
\* their union is the set of names of the named, non-blank entries.  It is
\* stated here for the manifests that keep the data model's unique-name
\* invariant only, and fails even for those.
C9_AsStated ==
    (pc = "classified" /\ UniqueRawNames) =>
        /\ Range(composite_packages) \cap Range(non_composite_packages) = {}
        /\ Range(composite_packages) \cup Range(non_composite_packages) = NamedNames

\* No two named entries carry the same name once trimmed.
UniqueNames ==
    \A i, j \in NamedEntries :
        i # j => TrimmedName(packages[i]) # TrimmedName(packages[j])

\* C9 (amended): for every manifest the union of the two returned sets is
\* the set of trimmed names of the named, non-blank entries, and the two
\* sets are disjoint whenever no two named entries share a trimmed name.
C9_PartitionOfNamedEntries ==
    pc = "classified" =>
        /\ Range(composite_packages) \cup Range(non_composite_packages) = NamedNames
        /\ UniqueNames =>
               Range(composite_packages) \cap Range(non_composite_packages) = {}

\* A manifest with a composite and a non-composite entry of different
\* names, classified.
C9_Witness ==
    /\ pc = "classified"
    /\ UniqueNames
    /\ composite_packages # <<>>
    /\ non_composite_packages # <<>>
    /\ Len(packages) = Cardinality(NamedNames)

\* C10: a named entry is placed in the composite set iff its Composite
\* field, trimmed and case-folded, equals "yes"; every other named entry
\* is placed in the non-composite set.
C10_CompositeIffYes ==
    pc = "classified" =>
        /\ composite_packages =
               NamesWhere(LAMBDA pkg : Named(pkg) /\ SaysYes(pkg), Len(packages))
        /\ non_composite_packages =
               NamesWhere(LAMBDA pkg : Named(pkg) /\ ~SaysYes(pkg), Len(packages))

\* A padded upper-case "yes" classified composite next to an entry whose
\* Composite key is absent.
C10_Witness ==
    /\ pc = "classified"
    /\ \E i, j \in NamedEntries :
           /\ packages[i].Composite = <<" ", "Y", "E", "S", " ">>
           /\ ~packages[j].hasComposite
    /\ Len(composite_packages) = 1
    /\ Len(non_composite_packages) = 1

----------------------------------------------------------------------------
(* Specification of the matcher alone: find_packages_for_base on every     *)
(* directory listing of up to MaxFiles of the files below, in every        *)
(* enumeration order, for both implementations and both version flags.     *)

BaseA == <<"a">>
BaseADev == <<"a", "-", "d", "e", "v">>
ArchG == <<"g">>
V700 == <<"7", ".", "0", ".", "0">>
V1020 == <<"1", "0", ".", "2", ".", "0">>
TextTrue == <<"T", "r", "u", "e">>
TextFalse == <<"F", "a", "l", "s", "e">>
TxtExt == <<".", "t", "x", "t">>

FileUniverse ==
    {BaseA \o V700 \o <<"_">> \o V700 \o DebExt,
     BaseA \o V1020 \o <<"_">> \o V1020 \o RpmExt,
     BaseA \o <<"_">> \o V700 \o DebExt,
     BaseA \o <<"_">> \o V700 \o TxtExt,
     BaseA \o V700 \o DebExt,
     BaseA \o <<"_", "7", ".", "0">> \o DebExt,
     BaseA \o V700 \o <<"-">> \o ArchG \o <<"_">> \o V700 \o DebExt,
     BaseA \o <<"-">> \o ArchG \o <<"_">> \o V700 \o DebExt,
     BaseADev \o <<"_">> \o V700 \o DebExt}

Listings == {l \in Seqs(FileUniverse, MaxFiles) : IsInjective(l)}

MatchManifest(gfx) ==
    <<Pkg(BaseA, NoText, <<>>, <<>>, gfx), Pkg(BaseADev, NoText, <<>>, <<>>, TextTrue)>>

\* The script reads neither Gfxarch nor a family; the loader runs with the
\* family and the flag, with the family only and with the flag only.
MatchConfigs ==
    {[variant |-> "script", family |-> NoText, manifest |-> MatchManifest(TextTrue)],
     [variant |-> "loader", family |-> ArchG, manifest |-> MatchManifest(TextTrue)],
     [variant |-> "loader", family |-> ArchG, manifest |-> MatchManifest(TextFalse)],
     [variant |-> "loader", family |-> NoText, manifest |-> MatchManifest(TextTrue)]}

InitMatch ==
    /\ pc = "find"
    /\ \E c \in MatchConfigs :
           /\ variant = c.variant
           /\ amdgpu_family = c.family
           /\ packages = c.manifest
    /\ os_family = "unknown"
    /\ use_rpm = FALSE
    /\ version_flag \in BOOLEAN
    /\ composite_flag = FALSE
    /\ root_is_list = TRUE
    /\ root_is_empty = (packages = <<>>)
    /\ hash_seed = 0
    /\ dest_dir_exists = TRUE
    /\ listing \in Listings
    /\ ci = 1
    /\ composite_packages = <<>>
    /\ non_composite_packages = <<>>
    /\ subset = <<>>
    /\ graph_keys = <<>>
    /\ graph = <<>>
    /\ visited = {}
    /\ sorted_list = <<>>
    /\ stack = <<>>
    /\ ki = 1
    /\ sorted_non = <<>>
    /\ sorted_composite = <<>>
    /\ sort_run = "non"
    /\ bases = <<>>
    /\ bi = 1
    /\ base \in {BaseA, BaseADev}
    /\ fi = 1
    /\ all_files = <<>>
    /\ matched = <<>>
    /\ final_install_list = <<>>
    /\ plan_owner = <<>>
    /\ diagnostics = <<>>
    /\ probe = <<>>
    /\ commands = <<>>
    /\ ii = 1
    /\ packages_arch = <<>>
    /\ pattern = <<>>
    /\ run_results = <<>>
    /\ os_arg = NoText
    /\ os_type = ""
    /\ os_release_exists = TRUE
    /\ os_release_lines = <<>>
    /\ system_name = NoText
    /\ args = <<>>
    /\ gfxarch_names = {}
    /\ config = <<>>
    /\ generated = <<>>
    /\ gi = 1

NextMatch == FindStart \/ FindFile \/ FindReturn

SpecMatch == InitMatch /\ [][NextMatch]_vars

----------------------------------------------------------------------------
(* Properties of the matcher.                                              *)

\* The directory entries that are package files, start with the base and
\* match the shape is_versioned_package accepts for the flag.
FilesOfShape(b, flag) ==
    {f \in Range(listing) :
        /\ \E ext \in {DebExt, RpmExt} : SubSeq(f, Len(f) - 3, Len(f)) = ext
        /\ SubSeq(f, 1, Len(b)) = b
        /\ IsVersionedPackage(f, b, flag)}

PathsOf(files) == {DestDir \o <<"/">> \o f : f \in files}

IsVersionedPath(path) == IsVersionedPackage(Basename(path), base, TRUE)

\* s <= t in code point order, compared from the first character on.
RECURSIVE NameLeq(_, _)
NameLeq(s, t) ==
    IF s = <<>> THEN TRUE
    ELSE IF t = <<>> THEN FALSE
    ELSE IF s[1] = t[1] THEN NameLeq(Tail(s), Tail(t))
    ELSE Ord(s[1]) < Ord(t[1])

\* C7: in the returned list every versioned match precedes every
\* non-versioned match, and within each group the paths are in ascending
\* lexical filename order.
C7_VersionedFirstThenLexical ==
    pc = "found" =>
        \A i, j \in DOMAIN matched :
            i < j =>
                /\ IsVersionedPath(matched[j]) => IsVersionedPath(matched[i])
                /\ (IsVersionedPath(matched[i]) = IsVersionedPath(matched[j]))
                       => NameLeq(Basename(matched[i]), Basename(matched[j]))

\* The directory enumerates a non-versioned file first and two versioned
\* files in descending order after it; the result lists all three.
C7_Witness ==
    /\ pc = "found"
    /\ Len(listing) = 3
    /\ Len(matched) = 3
    /\ ~IsVersionedPackage(listing[1], base, TRUE)
    /\ IsVersionedPackage(listing[2], base, TRUE)
    /\ IsVersionedPackage(listing[3], base, TRUE)
    /\ ~NameLeq(listing[2], listing[3])

----------------------------------------------------------------------------
(* Specification of is_versioned_package alone: a filename is generated    *)
(* from a (base, version, arch) tuple in one of the four shapes and handed *)
(* to the loader's matcher with the flags of that shape.                   *)

BaseA7 == <<"a", "7">>
BaseADevel == <<"a", "-", "d", "e", "v", "e", "l">>
ArchG7 == <<"g", "7">>

ProbeBases == {BaseA, BaseA7, BaseADev, BaseADevel}
ProbeVersions == {V700, V1020}
ProbeArchs == {ArchG, ArchG7}
Shapes == {"versioned_arch", "versioned", "plain_arch", "plain"}

ShapeIsVersioned(shape) == shape \in {"versioned_arch", "versioned"}
ShapeHasArch(shape) == shape \in {"versioned_arch", "plain_arch"}

\* The filename of a shape; underscore tells whether a plain shape writes
\* its optional "_".
GeneratedName(b, semver, build, arch, shape, underscore) ==
    (CASE shape = "versioned_arch" -> b \o semver \o <<"-">> \o arch \o <<"_">> \o build
       [] shape = "versioned" -> b \o semver \o <<"_">> \o build
       [] shape = "plain_arch" ->
              b \o <<"-">> \o arch \o (IF underscore THEN <<"_">> ELSE <<>>) \o build
       [] shape = "plain" -> b \o (IF underscore THEN <<"_">> ELSE <<>>) \o build)
    \o DebExt

InitProbe ==
    /\ pc = "probe"
    /\ variant = "loader"
    /\ os_family = "unknown"
    /\ use_rpm = FALSE
    /\ version_flag = FALSE
    /\ composite_flag = FALSE
    /\ root_is_list = TRUE
    /\ hash_seed = 0
    /\ dest_dir_exists = TRUE
    /\ listing = <<>>
    /\ ci = 1
    /\ composite_packages = <<>>
    /\ non_composite_packages = <<>>
    /\ subset = <<>>
    /\ graph_keys = <<>>
    /\ graph = <<>>
    /\ visited = {}
    /\ sorted_list = <<>>
    /\ stack = <<>>
    /\ ki = 1
    /\ sorted_non = <<>>
    /\ sorted_composite = <<>>
    /\ sort_run = "non"
    /\ bases = <<>>
    /\ bi = 1
    /\ base = NoText
    /\ fi = 1
    /\ all_files = <<>>
    /\ matched = <<>>
    /\ final_install_list = <<>>
    /\ plan_owner = <<>>
    /\ diagnostics = <<>>
    /\ commands = <<>>
    /\ ii = 1
    /\ packages_arch = <<>>
    /\ pattern = <<>>
    /\ run_results = <<>>
    /\ os_arg = NoText
    /\ os_type = ""
    /\ os_release_exists = TRUE
    /\ os_release_lines = <<>>
    /\ system_name = NoText
    /\ args = <<>>
    /\ gfxarch_names = {}
    /\ config = <<>>
    /\ generated = <<>>
    /\ gi = 1
    /\ \E b \in ProbeBases, semver \in ProbeVersions, build \in ProbeVersions,
          arch \in ProbeArchs, shape \in Shapes, underscore \in BOOLEAN,
          gfx \in {TextTrue, TextFalse} :
           /\ ShapeIsVersioned(shape) => underscore
           \* the flags of the shape: the arch token is in force exactly
           \* for the shapes that carry it
           /\ ShapeHasArch(shape) => gfx = TextTrue
           /\ packages = <<Pkg(b, NoText, <<>>, <<>>, gfx)>>
           /\ root_is_empty = FALSE
           /\ amdgpu_family = IF ShapeHasArch(shape) \/ gfx = TextFalse THEN arch ELSE NoText
           /\ probe = [base |-> b, shape |-> shape, underscore |-> underscore,
                       flag |-> ShapeIsVersioned(shape),
                       filename |-> GeneratedName(b, semver, build, arch, shape, underscore),
                       matched |-> FALSE, versioned |-> FALSE]

NextProbe == Probe

SpecProbe == InitProbe /\ [][NextProbe]_vars

\* C8 as stated: for every tuple and each of the four shapes the generated
\* filename is matched back to its base with the flags of the shape, and is
\* classified versioned exactly when the shape is a versioned one.
C8_AsStated ==
    pc = "probed" =>
        /\ probe.matched
        /\ probe.versioned = ShapeIsVersioned(probe.shape)

\* The base spells "devel" somewhere, in any case.
NamesDevel(b) ==
    \E i \in 1..(Len(b) - 4) :
        /\ b[i] \in {"d", "D"}
        /\ b[i + 1] \in {"e", "E"}
        /\ b[i + 2] \in {"v", "V"}
        /\ b[i + 3] \in {"e", "E"}
        /\ b[i + 4] \in {"l", "L"}

\* C8 (amended): the round trip holds for the two shapes without an arch
\* token for every base, and for the two shapes with an arch token for
\* every base whose name does not contain "devel".
C8_RoundTripExceptDevelArch ==
    (pc = "probed" /\ ~(ShapeHasArch(probe.shape) /\ NamesDevel(probe.base))) =>
        /\ probe.matched
        /\ probe.versioned = ShapeIsVersioned(probe.shape)

\* A plain arch-suffixed name written without the optional underscore, for
\* a base that ends in a digit, matched and classified non-versioned.
C8_Witness ==
    /\ pc = "probed"
    /\ probe.shape = "plain_arch"
    /\ ~probe.underscore
    /\ probe.base = BaseA7
    /\ probe.matched
    /\ ~probe.versioned

----------------------------------------------------------------------------
(* Install planner (install_packages).                                     *)

DevelSuffix == <<"-", "d", "e", "v", "e", "l">>

DevSuffix == <<"-", "d", "e", "v">>

NewLine == <<"\n">>

\* A replacement that is not anchored the way '$' is: it drops a final "el".
RewriteFinalEl(word) ==
    IF EndsWith(word, <<"e", "l">>)
    THEN SubSeq(word, 1, Len(word) - 2)
    ELSE word

\* re.sub('-devel$', '-dev', word): '$' is the end of the word or the place
\* before a newline that ends the word.
RewriteDevel(word) ==
    IF EndsWith(word, DevelSuffix)
    THEN SubSeq(word, 1, Len(word) - Len(DevelSuffix)) \o DevSuffix
    ELSE IF EndsWith(word, DevelSuffix \o NewLine)
    THEN SubSeq(word, 1, Len(word) - Len(DevelSuffix) - 1) \o DevSuffix \o NewLine
    ELSE word

\* A planner that leaves the sorted names as the manifest spells them.
NoRewrite(names) == names

\* [re.sub('-devel$', '-dev', word) for word in names] on a Debian target
RewriteForOs(names) ==
    IF os_family = "debian"
    THEN [i \in DOMAIN names |-> RewriteDevel(names[i])]
    ELSE names

\* pkg["Package"] in names
InNames(pkg, names) == pkg.Package \in Range(names)

CompositeEntries == SelectSeq(packages, LAMBDA pkg : InNames(pkg, composite_packages))

NonCompositeEntries ==
    SelectSeq(packages, LAMBDA pkg : ~InNames(pkg, composite_packages))

\* The names the caller of the loader hands to sort_packages_by_dependencies:
\* one of the two lists list_composite_packages returned.
LoaderNames ==
    IF composite_flag THEN composite_packages ELSE non_composite_packages

PlanExtendFront(plan, pkgs) == pkgs \o plan

\* final_install_list.extend(pkgs)
PlanExtend(plan, pkgs) == plan \o pkgs

DiagnosticsOfSilent(pkgs, b) == <<>>

\* What the planner reports for one base: nothing, the count of a
\* non-composite base with more than two matches (script), or the base
\* that has no match.
DiagnosticsOf(pkgs, b) ==
    IF pkgs # <<>>
    THEN IF variant = "script" /\ ~composite_flag /\ Len(pkgs) > 2
         THEN <<[kind |-> "extra", base |-> b]>>
         ELSE <<>>
    ELSE <<[kind |-> "missing", base |-> b]>>

\* A start that does not test the artifacts directory.
PlanStartUnchecked ==
    /\ pc = "start"
    /\ pc' = "load"
    /\ UNCHANGED <<configVars, buildVars, classifierVars, sorterVars, sortedVars, matcherVars,
                   plannerVars, probe, installVars, archVars>>

\* The script tests the artifacts directory before it reads the manifest;
\* the loader is constructed first and tests it in install_packages.
PlanStart ==
    /\ pc = "start"
    /\ IF variant = "script" /\ ~dest_dir_exists
       THEN /\ pc' = "aborted"
            /\ diagnostics' = Append(diagnostics, [kind |-> "no_dir", base |-> NoText])
       ELSE /\ pc' = "load"
            /\ UNCHANGED diagnostics
    /\ UNCHANGED <<configVars, buildVars, classifierVars, sorterVars, sortedVars,
                   matcherVars, bases, bi, final_install_list, plan_owner, probe,
                   installVars, archVars>>

\* Iterating the root of package.json in the script's
\* sort_packages_by_dependencies: pkg["Package"] raises KeyError for an
\* entry without that key, and TypeError for the elements of a root that
\* is not a list (the keys of an object, the characters of a string) or
\* for a root that cannot be iterated; a root that is not a list and
\* holds nothing ({}, "") is iterated without an error.
SplitRaises ==
    \/ \E i \in DOMAIN packages : ~packages[i].hasPackage
    \/ variant = "script" /\ ~root_is_list /\ ~root_is_empty

\* sort_packages_by_dependencies up to the first build_dependency_graph
\* call: the manifest is split by pkg["Package"].
SortStart ==
    /\ pc = "classified"
    /\ IF SplitRaises
       THEN /\ pc' = "error"
            /\ UNCHANGED <<subset, sort_run>>
       ELSE /\ pc' = "build"
            /\ subset' = IF variant = "script"
                         THEN NonCompositeEntries
                         ELSE SelectSeq(packages, LAMBDA pkg : InNames(pkg, LoaderNames))
            /\ sort_run' = IF variant = "script" THEN "non" ELSE "only"
    /\ UNCHANGED <<configVars, buildVars, classifierVars, graph_keys, graph, visited,
                   sorted_list, stack, ki, sorted_non, sorted_composite,
                   matcherVars, plannerVars, probe, installVars, archVars>>

\* The return of one dfs_sort call.  The script goes on to sort the
\* composite entries and then returns both lists; the loader sorts once.
SortFinish ==
    /\ pc = "sorted"
    /\ IF sort_run = "non"
       THEN /\ sorted_non' = sorted_list
            /\ subset' = CompositeEntries
            /\ sort_run' = "composite"
            /\ pc' = "build"
            /\ UNCHANGED sorted_composite
       ELSE /\ sorted_composite' = IF sort_run = "composite" THEN sorted_list
                                   ELSE sorted_composite
            /\ pc' = "rewrite"
            /\ UNCHANGED <<sorted_non, subset, sort_run>>
    /\ UNCHANGED <<configVars, buildVars, classifierVars, graph_keys, graph, visited,
                   sorted_list, stack, ki, matcherVars, plannerVars, probe, installVars, archVars>>

\* The Debian rewrite of the sorted names and the choice of the list the
\* planner walks.  The loader rewrites inside sort_packages_by_dependencies
\* and tests the artifacts directory at the start of install_packages.
Rewrite ==
    /\ pc = "rewrite"
    /\ sorted_composite' = IF variant = "script" THEN RewriteForOs(sorted_composite)
                           ELSE sorted_composite
    /\ sorted_non' = IF variant = "script" THEN RewriteForOs(sorted_non)
                     ELSE sorted_non
    /\ bases' = IF variant = "script"
                THEN (IF composite_flag THEN sorted_composite' ELSE sorted_non')
                ELSE RewriteForOs(sorted_list)
    /\ bi' = 1
    /\ final_install_list' = <<>>
    /\ plan_owner' = <<>>
    /\ IF variant = "loader" /\ ~dest_dir_exists
       THEN /\ pc' = "aborted"
            /\ diagnostics' = Append(diagnostics, [kind |-> "no_dir", base |-> NoText])
       ELSE /\ pc' = "plan"
            /\ UNCHANGED diagnostics
    /\ UNCHANGED <<configVars, buildVars, classifierVars, sorterVars, sort_run,
                   matcherVars, probe, installVars, archVars>>

\* for base in sorted...: pkgs = find_packages_for_base(dest_dir, base, version_flag)
PlanBase ==
    /\ pc = "plan"
    /\ bi <= Len(bases)
    /\ base' = bases[bi]
    /\ pc' = "find"
    /\ UNCHANGED <<configVars, buildVars, classifierVars, sorterVars, sortedVars, fi,
                   all_files, matched, plannerVars, probe, installVars, archVars>>

\* if pkgs: final_install_list.extend(pkgs) else: the missing-package report
PlanCollect ==
    /\ pc = "found"
    /\ final_install_list' = PlanExtend(final_install_list, matched)
    /\ plan_owner' = plan_owner \o [i \in DOMAIN matched |-> bi]
    /\ diagnostics' = diagnostics \o DiagnosticsOf(matched, base)
    /\ bi' = bi + 1
    /\ pc' = "plan"
    /\ UNCHANGED <<configVars, buildVars, classifierVars, sorterVars, sortedVars,
                   matcherVars, bases, probe, installVars, archVars>>

\* The loop over the sorted bases is over.
PlanDone ==
    /\ pc = "plan"
    /\ bi > Len(bases)
    /\ pc' = "planned"
    /\ UNCHANGED <<configVars, buildVars, classifierVars, sorterVars, sortedVars,
                   matcherVars, plannerVars, probe, installVars, archVars>>

\* if not final_install_list: the run reports that there is nothing to
\* install and returns.
InstallStart ==
    /\ pc = "planned"
    /\ IF final_install_list = <<>>
       THEN /\ pc' = "done"
            /\ diagnostics' = Append(diagnostics, [kind |-> "nothing", base |-> NoText])
       ELSE /\ pc' = "install"
            /\ UNCHANGED diagnostics
    /\ ii' = 1
    /\ UNCHANGED <<configVars, buildVars, classifierVars, sorterVars, sortedVars,
                   matcherVars, bases, bi, final_install_list, plan_owner,
                   probe, commands, archVars>>

\* The package manager of an OS family, "" for a family without one.
PackageManager ==
    CASE os_family = "debian" -> "dpkg"
      [] os_family = "redhat" -> "rpm"
      [] os_family = "suse" -> "zypper"
      [] OTHER -> ""

\* The result of the i-th subprocess.run of the run: the exit status is
\* zero or not, or the call raises (the executable cannot be started).
\* Invocations beyond the scripted results exit with status zero.
ResultOf(i) == IF i \in DOMAIN run_results THEN run_results[i] ELSE "zero"

\* The install loops of install_packages_bkp.py and of the loader wrap the
\* invocation in try/except Exception and log the exit status; the loop
\* of install_packages.py does neither.
CatchesExceptions == variant # "script"

\* A loop that gives up at the first invocation that does not succeed.
LoopGoesOnAfterSuccess(result) == result = "zero"

\* Whether the loop goes on after an invocation with this result.
LoopGoesOn(result) == result # "exception" \/ CatchesExceptions

\* What the loop logs for an invocation with this result.
ResultDiagnostics(result) ==
    IF CatchesExceptions /\ result # "zero"
    THEN <<[kind |-> IF result = "nonzero" THEN "failed" ELSE "exception",
            base |-> NoText]>>
    ELSE <<>>

\* Only install_packages.py ends a Debian run with apt-get -f install.
RunsFixUp == variant = "script" /\ os_family = "debian"

\* One iteration of "for pkg_path in final_install_list".
InstallPath ==
    /\ pc = "install"
    /\ ii <= Len(final_install_list)
    /\ IF PackageManager # ""
       THEN /\ commands' = Append(commands, [tool |-> PackageManager,
                                             path |-> final_install_list[ii],
                                             result |-> ResultOf(Len(commands) + 1)])
            /\ diagnostics' = diagnostics \o ResultDiagnostics(ResultOf(Len(commands) + 1))
            /\ pc' = IF LoopGoesOn(ResultOf(Len(commands) + 1)) THEN pc ELSE "error"
       ELSE /\ diagnostics' = Append(diagnostics,
                                     [kind |-> "unsupported", base |-> NoText])
            /\ UNCHANGED <<pc, commands>>
    /\ ii' = ii + 1
    /\ UNCHANGED <<configVars, buildVars, classifierVars, sorterVars, sortedVars,
                   matcherVars, bases, bi, final_install_list, plan_owner, probe,
                   archVars>>

\* The end of the loop; install_packages.py then lets apt-get fix the
\* dependencies on a Debian target, outside any try.
InstallFinish ==
    /\ pc = "install"
    /\ ii > Len(final_install_list)
    /\ IF RunsFixUp
       THEN /\ commands' = Append(commands, [tool |-> "apt-get", path |-> NoText,
                                             result |-> ResultOf(Len(commands) + 1)])
            /\ pc' = IF ResultOf(Len(commands) + 1) = "exception" /\ ~CatchesExceptions
                     THEN "error" ELSE "done"
       ELSE /\ UNCHANGED commands
            /\ pc' = "done"
    /\ UNCHANGED <<configVars, buildVars, classifierVars, sorterVars, sortedVars,
                   matcherVars, plannerVars, probe, ii, archVars>>

----------------------------------------------------------------------------
(* Specification of a whole planning run: the manifest is loaded and       *)
(* classified, each class is sorted, the sorted names are rewritten for    *)
(* the target and matched against the artifacts directory.                 *)

MaxPlanPkgs == 2    \* longest manifest of a planning run

PlanA == <<"a">>
PlanADevel == <<"a", "-", "d", "e", "v", "e", "l">>
PlanB == <<"b">>
PlanNames == {PlanA, PlanADevel, PlanB}
TextYes == <<"y", "e", "s">>

\* a and a-devel may depend on each other, b may depend on a.
PlanDeps(n) == IF n = PlanA THEN {<<>>, <<PlanADevel>>} ELSE {<<>>, <<PlanA>>}

\* b declares its dependency for the DEB format only.
PlanEntries ==
    {Pkg(n, c, d, IF n = PlanB THEN <<>> ELSE d, NoText) :
        n \in PlanNames, c \in {NoText, TextYes},
        d \in {<<>>, <<PlanA>>, <<PlanADevel>>}}

\* Manifests that keep the data model's invariant: names are unique.
PlanManifests ==
    {m \in Seqs(PlanEntries, MaxPlanPkgs) :
        /\ \A i \in DOMAIN m : m[i].DEBDepends \in PlanDeps(m[i].Package)
        /\ \A i, j \in DOMAIN m : i # j => m[i].Package # m[j].Package}

PlanFileA == PlanA \o <<"_">> \o V700 \o DebExt
PlanFileAVersioned == PlanA \o V700 \o <<"_">> \o V700 \o DebExt
PlanFileARpm == PlanA \o <<"_">> \o V700 \o RpmExt
PlanFileADev == BaseADev \o <<"_">> \o V700 \o DebExt
PlanFileADevel == PlanADevel \o <<"_">> \o V700 \o RpmExt
PlanFileB == PlanB \o <<"_">> \o V700 \o DebExt

\* The artifacts directory: complete, without the artifacts of a, without
\* those of a-devel, and empty.
PlanListings ==
    {<<PlanFileB, PlanFileADevel, PlanFileA, PlanFileADev, PlanFileARpm,
       PlanFileAVersioned>>,
     <<PlanFileADevel, PlanFileB, PlanFileADev>>,
     <<PlanFileARpm, PlanFileAVersioned, PlanFileB, PlanFileA>>,
     <<>>}

\* The script sorts by DEBDepends whatever the target (use_rpm is passed
\* as False); the caller of the loader chooses the format.
PlanConfigs ==
    {[variant |-> "script", os |-> "debian", rpm |-> FALSE, version |-> FALSE],
     [variant |-> "script", os |-> "redhat", rpm |-> FALSE, version |-> FALSE],
     [variant |-> "script", os |-> "redhat", rpm |-> FALSE, version |-> TRUE],
     [variant |-> "loader", os |-> "debian", rpm |-> FALSE, version |-> FALSE],
     [variant |-> "loader", os |-> "redhat", rpm |-> TRUE, version |-> TRUE]}

InitPlan ==
    /\ pc = "start"
    /\ \E c \in PlanConfigs :
           /\ variant = c.variant
           /\ os_family = c.os
           /\ use_rpm = c.rpm
           /\ version_flag = c.version
    /\ composite_flag \in BOOLEAN
    /\ amdgpu_family = NoText
    /\ root_is_list = TRUE
    /\ packages \in PlanManifests
    /\ root_is_empty = (packages = <<>>)
    /\ hash_seed = 0
    /\ dest_dir_exists \in BOOLEAN
    /\ listing \in PlanListings
    /\ ci = 1
    /\ composite_packages = <<>>
    /\ non_composite_packages = <<>>
    /\ subset = <<>>
    /\ graph_keys = <<>>
    /\ graph = <<>>
    /\ visited = {}
    /\ sorted_list = <<>>
    /\ stack = <<>>
    /\ ki = 1
    /\ sorted_non = <<>>
    /\ sorted_composite = <<>>
    /\ sort_run = "non"
    /\ bases = <<>>
    /\ bi = 1
    /\ base = NoText
    /\ fi = 1
    /\ all_files = <<>>
    /\ matched = <<>>
    /\ final_install_list = <<>>
    /\ plan_owner = <<>>
    /\ diagnostics = <<>>
    /\ probe = <<>>
    /\ commands = <<>>
    /\ ii = 1
    /\ packages_arch = <<>>
    /\ pattern = <<>>
    /\ run_results = <<>>
    /\ os_arg = NoText
    /\ os_type = ""
    /\ os_release_exists = TRUE
    /\ os_release_lines = <<>>
    /\ system_name = NoText
    /\ args = <<>>
    /\ gfxarch_names = {}
    /\ config = <<>>
    /\ generated = <<>>
    /\ gi = 1

NextPlan ==
    \/ PlanStart
    \/ LoadManifest
    \/ ClassifyEntry
    \/ ClassifyReturn
    \/ SortStart
    \/ BuildGraph
    \/ DfsStep
    \/ SortFinish
    \/ Rewrite
    \/ PlanBase
    \/ FindStart
    \/ FindFile
    \/ FindReturn
    \/ PlanCollect
    \/ PlanDone
    \/ InstallStart
    \/ InstallPath
    \/ InstallFinish

SpecPlan == InitPlan /\ [][NextPlan]_vars

----------------------------------------------------------------------------
(* Properties of the planner.                                              *)

\* The manifest entries of the class the run installs.
SelectedClass ==
    {i \in DOMAIN packages : Named(packages[i]) /\ (SaysYes(packages[i]) <=> composite_flag)}

\* Entry i declares, in the dependency format of the run, the name of entry j.
Declares(i, j) ==
    packages[j].Package \in
        Range(IF use_rpm THEN packages[i].RPMRequires ELSE packages[i].DEBDepends)

RECURSIVE DeclaresWithin(_, _, _)
DeclaresWithin(i, j, n) ==
    \/ Declares(i, j)
    \/ /\ n > 1
       /\ \E k \in SelectedClass : Declares(i, k) /\ DeclaresWithin(k, j, n - 1)

AcyclicManifest ==
    \A i \in SelectedClass : ~DeclaresWithin(i, i, Len(packages))

\* The base name the planner looks up for a package name on the target.
BaseNameOf(name) ==
    IF os_family = "debian" /\ Len(name) >= 6
          /\ SubSeq(name, Len(name) - 5, Len(name)) = <<"-", "d", "e", "v", "e", "l">>
    THEN SubSeq(name, 1, Len(name) - 6) \o <<"-", "d", "e", "v">>
    ELSE name

\* The paths of the listing that match base b under the version flag of the run.
ExpectedPaths(b) ==
    IF version_flag
    THEN PathsOf(FilesOfShape(b, TRUE))
    ELSE PathsOf(FilesOfShape(b, TRUE) \cup FilesOfShape(b, FALSE))

\* The positions of the plan that hold the artifacts matched for entry i.
PositionsOf(i) ==
    {x \in DOMAIN final_install_list :
        final_install_list[x] \in ExpectedPaths(BaseNameOf(packages[i].Package))}

\* C4: in the final install list of a run over an acyclic manifest, every
\* artifact matched for an in-class dependency b of a package a is placed
\* before every artifact matched for a; the plan is the concatenation of
\* the per-base match lists in sorted-name order.
C4_DependencyArtifactsFirst ==
    (pc = "planned" /\ AcyclicManifest) =>
        /\ \A a, b \in SelectedClass :
               Declares(a, b) =>
                   \A x \in PositionsOf(a), y \in PositionsOf(b) : y < x
        /\ \A x, y \in DOMAIN final_install_list :
               x < y => plan_owner[x] <= plan_owner[y]
        /\ \A x \in DOMAIN final_install_list :
               final_install_list[x] \in ExpectedPaths(bases[plan_owner[x]])

\* A finished plan in which a package and the in-class dependency it
\* declares both have artifacts.
C4_Witness ==
    /\ pc = "planned"
    /\ AcyclicManifest
    /\ \E a, b \in SelectedClass :
           /\ Declares(a, b)
           /\ PositionsOf(a) # {}
           /\ PositionsOf(b) # {}

\* The bases of the missing-package diagnostics, in the order of emission.
MissingReported ==
    LET missing == SelectSeq(diagnostics, LAMBDA d : d.kind = "missing")
    IN [i \in DOMAIN missing |-> missing[i].base]

PlanningPositions == {"plan", "find", "find_loop", "found"}

\* A step taken while the bases are walked stays in the walk or finishes it.
PlanningGoesOn ==
    pc \in PlanningPositions => pc' \in PlanningPositions \cup {"planned"}

\* C5: a base without artifacts does not abort planning.  Once the bases
\* are being walked the run never fails; the finished plan holds, in the
\* order of the sorted list, every match of every base; exactly one
\* missing-package diagnostic is emitted per base without a match; and a
\* base with more than two matches keeps them all.
C5_MissingBaseDoesNotAbort ==
    /\ [][PlanningGoesOn]_vars
    /\ [](pc = "planned" =>
            /\ \A k \in DOMAIN bases :
                   {final_install_list[x] :
                        x \in {y \in DOMAIN final_install_list : plan_owner[y] = k}}
                       = ExpectedPaths(bases[k])
            /\ \A x, y \in DOMAIN final_install_list :
                   x < y => plan_owner[x] <= plan_owner[y]
            /\ MissingReported =
                   SelectSeq(bases, LAMBDA b : ExpectedPaths(b) = {}))

\* A finished non-composite plan that holds the artifacts of one base,
\* more than two of them, after a base without artifacts was reported.
C5_Witness ==
    /\ pc = "planned"
    /\ ~composite_flag
    /\ \E k \in DOMAIN bases :
           /\ ExpectedPaths(bases[k]) = {}
           /\ \E n \in DOMAIN bases :
                  /\ k < n
                  /\ Cardinality(ExpectedPaths(bases[n])) > 2
                  /\ Cardinality({x \in DOMAIN final_install_list : plan_owner[x] = n}) > 2
    /\ Len(MissingReported) = 1

----------------------------------------------------------------------------
(* Specification of the graph builder and the sorter for both dependency   *)
(* formats: the entries declare different DEBDepends and RPMRequires, some *)
(* of them names outside the subset.                                       *)

NameX == <<"x">>    \* a package that is never in the subset

\* (DEBDepends, RPMRequires) of an entry.
GraphDeps ==
    {<< <<>>, <<NameA, NameX>> >>,
     << <<NameX, NameC, NameB>>, <<>> >>,
     << <<NameB>>, <<NameC, NameX, NameB>> >>}

GraphEntries ==
    {Pkg(n, NoText, d[1], d[2], NoText) : n \in SortNames, d \in GraphDeps}

InitGraph ==
    /\ pc = "build"
    /\ variant = "script"
    /\ os_family = "unknown"
    /\ use_rpm \in BOOLEAN
    /\ version_flag = FALSE
    /\ composite_flag = FALSE
    /\ amdgpu_family = NoText
    /\ root_is_list = TRUE
    /\ packages = <<>>
    /\ root_is_empty = (packages = <<>>)
    /\ hash_seed \in {0, 1}
    /\ dest_dir_exists = TRUE
    /\ listing = <<>>
    /\ ci = 1
    /\ composite_packages = <<>>
    /\ non_composite_packages = <<>>
    /\ subset \in Seqs(GraphEntries, MaxPkgs)
    /\ graph_keys = <<>>
    /\ graph = <<>>
    /\ visited = {}
    /\ sorted_list = <<>>
    /\ stack = <<>>
    /\ ki = 1
    /\ sorted_non = <<>>
    /\ sorted_composite = <<>>
    /\ sort_run = "non"
    /\ bases = <<>>
    /\ bi = 1
    /\ base = NoText
    /\ fi = 1
    /\ all_files = <<>>
    /\ matched = <<>>
    /\ final_install_list = <<>>
    /\ plan_owner = <<>>
    /\ diagnostics = <<>>
    /\ probe = <<>>
    /\ commands = <<>>
    /\ ii = 1
    /\ packages_arch = <<>>
    /\ pattern = <<>>
    /\ run_results = <<>>
    /\ os_arg = NoText
    /\ os_type = ""
    /\ os_release_exists = TRUE
    /\ os_release_lines = <<>>
    /\ system_name = NoText
    /\ args = <<>>
    /\ gfxarch_names = {}
    /\ config = <<>>
    /\ generated = <<>>
    /\ gi = 1

NextGraph == BuildGraph \/ DfsStep

SpecGraph == InitGraph /\ [][NextGraph]_vars

\* The names of the subset.
SubsetNames == {subset[i].Package : i \in DOMAIN subset}

\* The entry of the subset that the mapping holds for a name: the last one.
EntryOf(name) ==
    subset[CHOOSE i \in DOMAIN subset :
               /\ subset[i].Package = name
               /\ \A j \in DOMAIN subset : j > i => subset[j].Package # name]

Declared(pkg) == IF use_rpm THEN pkg.RPMRequires ELSE pkg.DEBDepends

\* seq with every element outside names removed, the order kept.
RECURSIVE Restrict(_, _)
Restrict(seq, names) ==
    IF seq = <<>> THEN <<>>
    ELSE IF Head(seq) \in names
         THEN <<Head(seq)>> \o Restrict(Tail(seq), names)
         ELSE Restrict(Tail(seq), names)

\* C11: the graph built from a subset S has exactly one key per name of S;
\* the value of a key is the declared dependency sequence of its package
\* for the format of the run, with the names outside S removed and the
\* declared order kept; no edge points outside S.
C11_GraphIsRestrictionToSubset ==
    pc \in {"dfs", "sorted"} =>
        /\ Range(graph_keys) = SubsetNames
        /\ IsInjective(graph_keys)
        /\ DOMAIN graph = SubsetNames
        /\ \A name \in SubsetNames :
               /\ graph[name] = Restrict(Declared(EntryOf(name)), SubsetNames)
               /\ Range(graph[name]) \subseteq SubsetNames

\* A graph built for the RPM format in which an outside name was dropped
\* from between two names that were kept.
C11_Witness ==
    /\ pc = "dfs"
    /\ use_rpm
    /\ \E name \in SubsetNames :
           /\ Len(graph[name]) = 2
           /\ Len(Declared(EntryOf(name))) = 3
           /\ Declared(EntryOf(name)) # EntryOf(name).DEBDepends

\* The names of seq in the order of their first occurrence.
RECURSIVE FirstOccurrences(_, _)
FirstOccurrences(seq, seen) ==
    IF seq = <<>> THEN <<>>
    ELSE IF Head(seq) \in seen
         THEN FirstOccurrences(Tail(seq), seen)
         ELSE <<Head(seq)>> \o FirstOccurrences(Tail(seq), seen \cup {Head(seq)})

\* The order a depth-first walk gives: the names of the subset are taken
\* in entry order and the dependencies of a name in declared order; a name
\* is listed once all its dependencies are.  acc is the walk so far.
RECURSIVE WalkName(_, _)
RECURSIVE WalkNames(_, _)
WalkName(name, acc) ==
    IF name \in acc.seen THEN acc
    ELSE LET below == WalkNames(Restrict(Declared(EntryOf(name)), SubsetNames),
                                [seen |-> acc.seen \cup {name}, out |-> acc.out])
         IN [seen |-> below.seen, out |-> Append(below.out, name)]

WalkNames(names, acc) ==
    IF names = <<>> THEN acc
    ELSE WalkNames(Tail(names), WalkName(Head(names), acc))

OrderOfSubset ==
    WalkNames(FirstOccurrences([i \in DOMAIN subset |-> subset[i].Package], {}),
              [seen |-> {}, out |-> <<>>]).out

\* C13: sorting is deterministic.  The list a run returns is a function of
\* the subset and the dependency format alone, fixed by the entry order
\* and each entry's declared dependency order; whatever the hash seed of
\* the run, two runs on the same input return the same list.
C13_SortedListIsFunctionOfInput ==
    pc = "sorted" => sorted_list = OrderOfSubset

\* A run under the second hash seed that sorted a package after its two
\* dependencies.
C13_Witness ==
    /\ pc = "sorted"
    /\ hash_seed = 1
    /\ \E name \in SubsetNames :
           Cardinality(Range(graph[name]) \ {name}) = 2

----------------------------------------------------------------------------
(* Specification of planning runs over manifests that leave the data      *)
(* model: an entry with a blank name or without a name, an entry with     *)
(* disablepackaging set, and a root that is not a list.                    *)

Disabled(pkg) == [pkg EXCEPT !.disablepackaging = TRUE]

WithoutName(pkg) == [pkg EXCEPT !.hasPackage = FALSE]

\* a and b may depend on each other; b may be disabled.
IrregularEntries ==
    {Pkg(n, c, d, d, NoText) :
        n \in {PlanA, PlanB}, c \in {NoText, TextYes},
        d \in {<<>>, <<PlanA>>, <<PlanB>>}}
    \cup {Disabled(Pkg(PlanB, c, d, d, NoText)) :
             c \in {NoText, TextYes}, d \in {<<>>, <<PlanA>>}}
    \cup {Pkg(NoText, NoText, <<>>, <<>>, NoText),
          WithoutName(Pkg(NoText, NoText, <<>>, <<>>, NoText))}

IrregularManifests ==
    {m \in Seqs(IrregularEntries, MaxPlanPkgs) :
        /\ \A i \in DOMAIN m : m[i].Package \notin Range(m[i].DEBDepends)
        /\ \A i, j \in DOMAIN m : i # j => m[i].Package # m[j].Package}

IrregularListing == <<PlanFileB, PlanFileA>>

InitIrregular ==
    /\ pc = "start"
    /\ variant \in {"script", "loader"}
    /\ os_family = "debian"
    /\ use_rpm = FALSE
    /\ version_flag = FALSE
    /\ composite_flag \in BOOLEAN
    /\ amdgpu_family = NoText
    /\ root_is_list \in BOOLEAN
    /\ packages \in (IF root_is_list THEN IrregularManifests ELSE {<<>>})
    /\ root_is_empty \in (IF root_is_list THEN {packages = <<>>} ELSE BOOLEAN)
    /\ hash_seed = 0
    /\ dest_dir_exists = TRUE
    /\ listing = IrregularListing
    /\ ci = 1
    /\ composite_packages = <<>>
    /\ non_composite_packages = <<>>
    /\ subset = <<>>
    /\ graph_keys = <<>>
    /\ graph = <<>>
    /\ visited = {}
    /\ sorted_list = <<>>
    /\ stack = <<>>
    /\ ki = 1
    /\ sorted_non = <<>>
    /\ sorted_composite = <<>>
    /\ sort_run = "non"
    /\ bases = <<>>
    /\ bi = 1
    /\ base = NoText
    /\ fi = 1
    /\ all_files = <<>>
    /\ matched = <<>>
    /\ final_install_list = <<>>
    /\ plan_owner = <<>>
    /\ diagnostics = <<>>
    /\ probe = <<>>
    /\ commands = <<>>
    /\ ii = 1
    /\ packages_arch = <<>>
    /\ pattern = <<>>
    /\ run_results = <<>>
    /\ os_arg = NoText
    /\ os_type = ""
    /\ os_release_exists = TRUE
    /\ os_release_lines = <<>>
    /\ system_name = NoText
    /\ args = <<>>
    /\ gfxarch_names = {}
    /\ config = <<>>
    /\ generated = <<>>
    /\ gi = 1

SpecIrregular == InitIrregular /\ [][NextPlan]_vars

\* The number of places of seq that hold x.
Count(seq, x) == Cardinality({i \in DOMAIN seq : seq[i] = x})

IsPermutation(s, t) ==
    /\ Len(s) = Len(t)
    /\ \A x \in Range(s) \cup Range(t) : Count(s, x) = Count(t, x)

\* C12 as stated: once the sorting is over, each sorted list is a
\* permutation of the classifier's set of the same class, so that no name,
\* and no blank name in particular, is sorted without being in that set.
C12_AsStated ==
    pc = "rewrite" =>
        IF variant = "script"
        THEN /\ IsPermutation(sorted_non, non_composite_packages)
             /\ IsPermutation(sorted_composite, composite_packages)
        ELSE IsPermutation(sorted_list,
                           IF composite_flag THEN composite_packages
                           ELSE non_composite_packages)

----------------------------------------------------------------------------
(* Specification of the Debian rewrite as a function of one name: the     *)
(* comprehension of install_packages is applied to a list of one name,     *)
(* and then once more to its own result.                                    *)

RewriteStems == {NoText, <<"a">>, <<"f", "o", "o">>, <<"a", "-", "d", "e", "v", "e", "l">>,
                 <<"a", "-", "d", "e", "v">>, <<"a", "n", "g">>}

RewriteEndings == {NoText, DevelSuffix, DevSuffix, DevelSuffix \o NewLine,
                   DevelSuffix \o NewLine \o NewLine, NewLine,
                   DevelSuffix \o <<"e", "l">>, <<"d", "e", "v", "e", "l">>,
                   <<"e", "l">>, DevelSuffix \o <<"x">>}

RewriteWords == {s \o e : s \in RewriteStems, e \in RewriteEndings}

InitRewrite ==
    /\ pc = "rewrite_once"
    /\ variant = "script"
    /\ os_family \in {"debian", "redhat", "suse"}
    /\ use_rpm = FALSE
    /\ version_flag = FALSE
    /\ composite_flag = FALSE
    /\ amdgpu_family = NoText
    /\ root_is_list = TRUE
    /\ packages = <<>>
    /\ root_is_empty = (packages = <<>>)
    /\ hash_seed = 0
    /\ dest_dir_exists = TRUE
    /\ listing = <<>>
    /\ ci = 1
    /\ composite_packages = <<>>
    /\ non_composite_packages = <<>>
    /\ subset = <<>>
    /\ graph_keys = <<>>
    /\ graph = <<>>
    /\ visited = {}
    /\ sorted_list \in {<<w>> : w \in RewriteWords}
    /\ stack = <<>>
    /\ ki = 1
    /\ sorted_non = <<>>
    /\ sorted_composite = <<>>
    /\ sort_run = "non"
    /\ bases = <<>>
    /\ bi = 1
    /\ base = NoText
    /\ fi = 1
    /\ all_files = <<>>
    /\ matched = <<>>
    /\ final_install_list = <<>>
    /\ plan_owner = <<>>
    /\ diagnostics = <<>>
    /\ probe = <<>>
    /\ commands = <<>>
    /\ ii = 1
    /\ packages_arch = <<>>
    /\ pattern = <<>>
    /\ run_results = <<>>
    /\ os_arg = NoText
    /\ os_type = ""
    /\ os_release_exists = TRUE
    /\ os_release_lines = <<>>
    /\ system_name = NoText
    /\ args = <<>>
    /\ gfxarch_names = {}
    /\ config = <<>>
    /\ generated = <<>>
    /\ gi = 1

\* sorted = [re.sub('-devel$', '-dev', word) for word in sorted]
RewriteOnce ==
    /\ pc = "rewrite_once"
    /\ bases' = RewriteForOs(sorted_list)
    /\ pc' = "rewrite_twice"
    /\ UNCHANGED <<configVars, buildVars, classifierVars, sorterVars, sortedVars, matcherVars,
                   bi, final_install_list, plan_owner, diagnostics, probe, installVars, archVars>>

\* the same comprehension over the rewritten list
RewriteTwice ==
    /\ pc = "rewrite_twice"
    /\ sorted_non' = RewriteForOs(bases)
    /\ pc' = "rewritten"
    /\ UNCHANGED <<configVars, buildVars, classifierVars, sorterVars, sorted_composite, sort_run,
                   matcherVars, plannerVars, probe, installVars, archVars>>

NextRewrite == RewriteOnce \/ RewriteTwice

SpecRewrite == InitRewrite /\ [][NextRewrite]_vars

\* The name with its final "-devel" turned into "-dev".
DevelToDev(word) == SubSeq(word, 1, Len(word) - Len(DevelSuffix)) \o DevSuffix

\* C14 as stated: on a Debian target rewriting a name twice gives what
\* rewriting it once gives, a name that ends in "-devel" loses the "el",
\* and every name that does not end in "-devel" is left as it is.
C14_AsStated ==
    (pc = "rewritten" /\ os_family = "debian") =>
        /\ sorted_non = bases
        /\ EndsWith(sorted_list[1], DevelSuffix) => bases[1] = DevelToDev(sorted_list[1])
        /\ ~EndsWith(sorted_list[1], DevelSuffix) => bases = sorted_list

\* C14, amended: on a Debian target rewriting a name twice gives what
\* rewriting it once gives, a name that ends in "-devel" loses the "el",
\* and a name is left as it is when it ends neither in "-devel" nor in
\* "-devel" followed by one newline.
C14_RewriteIsIdempotent ==
    (pc = "rewritten" /\ os_family = "debian") =>
        /\ sorted_non = bases
        /\ EndsWith(sorted_list[1], DevelSuffix) => bases[1] = DevelToDev(sorted_list[1])
        /\ (~EndsWith(sorted_list[1], DevelSuffix)
            /\ ~EndsWith(sorted_list[1], DevelSuffix \o NewLine)) => bases = sorted_list

\* "foo-devel" has become "foo-dev" and has stayed "foo-dev".
C14_Witness ==
    /\ pc = "rewritten"
    /\ os_family = "debian"
    /\ sorted_list = << <<"f", "o", "o">> \o DevelSuffix >>
    /\ bases = << <<"f", "o", "o">> \o DevSuffix >>
    /\ sorted_non = bases

----------------------------------------------------------------------------
(* C15: the place of the Debian rewrite in a planning run.                 *)

\* The names with every final "-devel" turned into "-dev".
DevNames(names) ==
    [i \in DOMAIN names |->
        IF EndsWith(names[i], DevelSuffix) THEN DevelToDev(names[i]) ELSE names[i]]

ManifestNames == {packages[i].Package : i \in DOMAIN packages}

BeforeRewrite == {"start", "load", "classify", "classified", "build", "dfs", "sorted"}

AfterRewrite == {"plan", "find", "find_loop", "found", "planned", "install", "done"}

\* The step from "rewrite" rewrites the sorted lists; no other step of a
\* Debian run changes a sorted list once the sorting is over, and no step
\* goes back to the sorter.
RewrittenOnce ==
    /\ (pc = "rewrite" /\ os_family = "debian") =>
           IF variant = "script"
           THEN /\ sorted_non' = DevNames(sorted_non)
                /\ sorted_composite' = DevNames(sorted_composite)
                /\ bases' = IF composite_flag THEN sorted_composite' ELSE sorted_non'
           ELSE bases' = DevNames(sorted_list)
    /\ pc \in AfterRewrite =>
           /\ UNCHANGED <<sorted_non, sorted_composite, sorted_list, bases>>
           /\ pc' \in AfterRewrite
    /\ pc \in BeforeRewrite => pc' \notin AfterRewrite

\* Until the rewrite the graph and the sorted lists hold the names as the
\* manifest spells them.
SortedAsSpelled ==
    pc \in BeforeRewrite \cup {"rewrite"} =>
        /\ Range(graph_keys) \subseteq ManifestNames
        /\ Range(sorted_list) \cup Range(sorted_non) \cup Range(sorted_composite)
               \subseteq ManifestNames
        /\ bases = <<>>

\* C15 as stated: on a Debian target the rewrite comes before graph
\* building, so that no graph is built over a name that ends in "-devel".
C15_AsStated ==
    (os_family = "debian" /\ pc = "dfs") =>
        \A i \in DOMAIN graph_keys : ~EndsWith(graph_keys[i], DevelSuffix)

\* C15, amended: on a Debian target the rewrite is applied exactly once per
\* planning run, after the sorting is over and before any base is matched:
\* the script rewrites both ordered lists, the loader the list it has
\* sorted; graphs are built and sorted over the names as the manifest
\* spells them.
C15_RewriteOnceAfterSorting == [][RewrittenOnce]_vars /\ []SortedAsSpelled

\* A Debian run of the script that has sorted a-devel as a composite
\* package and holds it as a-dev next to a sorted non-composite list.
C15_Witness ==
    /\ pc = "plan"
    /\ variant = "script"
    /\ os_family = "debian"
    /\ PlanADevel \in ManifestNames
    /\ sorted_composite = <<BaseADev>>
    /\ sorted_non # <<>>

----------------------------------------------------------------------------
(* Specification of the architecture suffix of the loader: the expanded   *)
(* name list (_load_packages_arch) and the pattern of the matcher.         *)

NameDevel == <<"d", "e", "v", "e", "l">>

BaseACapitalDevel == <<"a", "-", "D", "e", "v", "e", "l">>

TextLowerTrue == <<"t", "r", "u", "e">>

\* A family with a second component, as in gfx94X-dcgpu.
ArchGDc == <<"g", "-", "d", "c">>

ArchEntries ==
    {Pkg(n, NoText, <<>>, <<>>, g) :
        n \in {BaseA, BaseADevel, BaseACapitalDevel, NameDevel},
        g \in {TextTrue, TextLowerTrue, TextFalse}}

\* Names are unique, as the data model requires.
ArchManifests ==
    {m \in Seqs(ArchEntries, MaxPlanPkgs) :
        \A i, j \in DOMAIN m : i # j => m[i].Package # m[j].Package}

InitArch ==
    /\ pc = "arch"
    /\ variant = "loader"
    /\ os_family = "redhat"
    /\ use_rpm = FALSE
    /\ version_flag \in BOOLEAN
    /\ composite_flag = FALSE
    /\ amdgpu_family \in {NoText, ArchG, ArchG7, ArchGDc}
    /\ root_is_list = TRUE
    /\ packages \in ArchManifests
    /\ root_is_empty = (packages = <<>>)
    /\ hash_seed = 0
    /\ dest_dir_exists = TRUE
    /\ listing = <<>>
    /\ ci = 1
    /\ composite_packages = <<>>
    /\ non_composite_packages = <<>>
    /\ subset = <<>>
    /\ graph_keys = <<>>
    /\ graph = <<>>
    /\ visited = {}
    /\ sorted_list = <<>>
    /\ stack = <<>>
    /\ ki = 1
    /\ sorted_non = <<>>
    /\ sorted_composite = <<>>
    /\ sort_run = "non"
    /\ bases = <<>>
    /\ bi = 1
    /\ base = NoText
    /\ fi = 1
    /\ all_files = <<>>
    /\ matched = <<>>
    /\ final_install_list = <<>>
    /\ plan_owner = <<>>
    /\ diagnostics = <<>>
    /\ probe = <<>>
    /\ commands = <<>>
    /\ ii = 1
    /\ packages_arch = <<>>
    /\ pattern = <<>>
    /\ run_results = <<>>
    /\ os_arg = NoText
    /\ os_type = ""
    /\ os_release_exists = TRUE
    /\ os_release_lines = <<>>
    /\ system_name = NoText
    /\ args = <<>>
    /\ gfxarch_names = {}
    /\ config = <<>>
    /\ generated = <<>>
    /\ gi = 1

\* The name _load_packages_arch appends for one entry:
\* gfx_arch_flag and self.amdgpu_family and "devel" not in name
ArchName(pkg) ==
    IF /\ Lower(pkg.Gfxarch) = TextLowerTrue
       /\ amdgpu_family # NoText
       /\ ~Contains(pkg.Package, NameDevel)
    THEN pkg.Package \o <<"-">> \o amdgpu_family
    ELSE pkg.Package

\* One iteration of "for pkg in self.packages" of _load_packages_arch.
ArchEntry ==
    /\ pc = "arch"
    /\ ci <= Len(packages)
    /\ packages_arch' = Append(packages_arch, ArchName(packages[ci]))
    /\ ci' = ci + 1
    /\ UNCHANGED <<pc, configVars, buildVars, composite_packages, non_composite_packages,
                   sorterVars, sortedVars, matcherVars, plannerVars, probe,
                   installVars, pattern>>

\* return packages_arch
ArchReturn ==
    /\ pc = "arch"
    /\ ci > Len(packages)
    /\ pc' = "arch_done"
    /\ UNCHANGED <<configVars, buildVars, classifierVars, sorterVars, sortedVars, matcherVars,
                   plannerVars, probe, installVars, archVars>>

\* The pattern is_versioned_package builds for one base of the manifest.
BuildPattern ==
    /\ pc = "arch_done"
    /\ \E b \in {packages[i].Package : i \in DOMAIN packages} :
           /\ base' = b
           /\ pattern' = IF version_flag THEN VersionedPattern(b) ELSE PlainPattern(b)
    /\ pc' = "pattern"
    /\ UNCHANGED <<configVars, buildVars, classifierVars, sorterVars, sortedVars, fi, all_files,
                   matched, plannerVars, probe, installVars, packages_arch>>

NextArch == ArchEntry \/ ArchReturn \/ BuildPattern

SpecArch == InitArch /\ [][NextArch]_vars

\* The two patterns that carry no architecture token.
PatternsWithoutArch(b) ==
    {Escape(b) \o Version3 \o <<Lit("_")>> \o Version3,
     Escape(b) \o <<Opt("_")>> \o Version3}

----------------------------------------------------------------------------
(* Irregular manifests: entries with disablepackaging, entries without a   *)
(* usable name, roots that are not lists.                                   *)

DisabledNames ==
    {packages[i].Package : i \in {j \in DOMAIN packages : packages[j].disablepackaging}}

\* The paths of the artifacts matched for the package named n.
ArtifactsOf(n) == ExpectedPaths(BaseNameOf(n))

\* C17 as stated: a package with disablepackaging set is in neither
\* classifier set, in no graph and no sorted order, and no artifact of it
\* is planned or installed.
C17_AsStated ==
    \A n \in DisabledNames :
        /\ n \notin Range(composite_packages) \cup Range(non_composite_packages)
        /\ n \notin Range(graph_keys)
        /\ n \notin Range(sorted_list) \cup Range(sorted_non) \cup Range(sorted_composite)
        /\ n \notin Range(bases)
        /\ Range(final_install_list) \cap ArtifactsOf(n) = {}
        /\ \A i \in DOMAIN commands : commands[i].path \notin ArtifactsOf(n)

\* The manifest is a list with an entry whose name is missing or blank.
HasNamelessEntry ==
    /\ root_is_list
    /\ \E i \in DOMAIN packages : ~packages[i].hasPackage \/ packages[i].Package = NoText

\* C18 as stated: an entry whose name is missing or blank is skipped and is
\* not fatal: the run raises no error, and no blank name is classified,
\* sorted or looked up as a base.
C18_AsStated ==
    HasNamelessEntry =>
        /\ pc # "error"
        /\ NoText \notin Range(composite_packages) \cup Range(non_composite_packages)
        /\ NoText \notin Range(sorted_list) \cup Range(sorted_non)
                             \cup Range(sorted_composite) \cup Range(bases)

\* The positions of a run before the sorter is entered, and the failure.
LoadingPositions == {"start", "load", "classify", "classified", "error"}

\* C19 as stated: a run over a manifest whose root is not a list fails in
\* loading: it never enters the sorter or the planner, it does not end
\* normally, and it produces no order, no plan and no command.
C19_AsStated ==
    ~root_is_list =>
        /\ pc \in LoadingPositions
        /\ sorted_list = <<>> /\ sorted_non = <<>> /\ sorted_composite = <<>>
        /\ final_install_list = <<>>
        /\ commands = <<>>

----------------------------------------------------------------------------
(* C20: a run without the artifacts directory.                             *)

ScanningPositions == {"plan", "find", "find_loop", "found", "planned", "install", "done"}

\* C20: when the artifacts directory does not exist install_packages
\* aborts: the run never lists the directory, never matches a base, holds
\* an empty install list and runs no command; the script stops before the
\* manifest is read; and the run ends in the abort with one diagnostic
\* that names the missing directory.
C20_MissingDirectoryAborts ==
    ~dest_dir_exists =>
        /\ pc \notin ScanningPositions
        /\ all_files = <<>>
        /\ matched = <<>>
        /\ final_install_list = <<>>
        /\ commands = <<>>
        /\ variant = "script" => pc \in {"start", "aborted"}
        /\ ~ENABLED NextPlan => pc = "aborted"
        /\ pc = "aborted" =>
               diagnostics = <<[kind |-> "no_dir", base |-> NoText]>>

\* The loader has sorted two packages, the listing holds artifacts, and
\* install_packages has stopped at the test of the directory.
C20_Witness ==
    /\ pc = "aborted"
    /\ ~dest_dir_exists
    /\ variant = "loader"
    /\ Len(bases) = 2
    /\ listing # <<>>
    /\ final_install_list = <<>>
    /\ commands = <<>>

----------------------------------------------------------------------------
(* Specification of the execution of a plan: the install loops of          *)
(* install_packages.py, install_packages_bkp.py and the loader, started    *)
(* with a finished plan, under every result of every invocation.           *)

MaxInstall == 3

InstallPaths == {PlanFileA, PlanFileB}

RunResults == {"zero", "nonzero", "exception"}

InitInstall ==
    /\ pc = "planned"
    /\ variant \in {"script", "bkp", "loader"}
    /\ os_family \in {"debian", "redhat", "suse", "unknown"}
    /\ use_rpm = FALSE
    /\ version_flag = FALSE
    /\ composite_flag = FALSE
    /\ amdgpu_family = NoText
    /\ root_is_list = TRUE
    /\ packages = <<>>
    /\ root_is_empty = (packages = <<>>)
    /\ hash_seed = 0
    /\ dest_dir_exists = TRUE
    /\ listing = <<>>
    /\ ci = 1
    /\ composite_packages = <<>>
    /\ non_composite_packages = <<>>
    /\ subset = <<>>
    /\ graph_keys = <<>>
    /\ graph = <<>>
    /\ visited = {}
    /\ sorted_list = <<>>
    /\ stack = <<>>
    /\ ki = 1
    /\ sorted_non = <<>>
    /\ sorted_composite = <<>>
    /\ sort_run = "non"
    /\ bases = <<>>
    /\ bi = 1
    /\ base = NoText
    /\ fi = 1
    /\ all_files = <<>>
    /\ matched = <<>>
    /\ final_install_list \in Seqs(InstallPaths, MaxInstall)
    /\ plan_owner = <<>>
    /\ diagnostics = <<>>
    /\ probe = <<>>
    /\ commands = <<>>
    /\ ii = 1
    /\ packages_arch = <<>>
    /\ pattern = <<>>
    /\ run_results \in [1..(Len(final_install_list) + 1) -> RunResults]
    /\ os_arg = NoText
    /\ os_type = ""
    /\ os_release_exists = TRUE
    /\ os_release_lines = <<>>
    /\ system_name = NoText
    /\ args = <<>>
    /\ gfxarch_names = {}
    /\ config = <<>>
    /\ generated = <<>>
    /\ gi = 1

NextInstall == InstallStart \/ InstallPath \/ InstallFinish

SpecInstall == InitInstall /\ [][NextInstall]_vars

\* The per-path invocations so far, in the order they were made.
PathCommands == SelectSeq(commands, LAMBDA c : c.tool # "apt-get")

PathsOfCommands == [i \in DOMAIN PathCommands |-> PathCommands[i].path]

\* No invocation of the run raises where the loop has no try.
NothingUncaught ==
    CatchesExceptions \/ \A i \in DOMAIN run_results : run_results[i] # "exception"

\* C21: on a supported OS family the invocations made so far are the
\* paths of the plan walked so far, each once and in list order, with the
\* package manager of the family; an invocation that exits with a non-zero
\* status does not end the loop: a run in which no invocation raises
\* outside a try stops only when every path of the plan has been handed
\* over.
C21_EveryPathOnceInOrder ==
    PackageManager # "" =>
        /\ pc = "install" => PathsOfCommands = SubSeq(final_install_list, 1, ii - 1)
        /\ \A i \in DOMAIN PathCommands : PathCommands[i].tool = PackageManager
        /\ pc \in {"done", "error"} =>
               /\ Len(PathsOfCommands) <= Len(final_install_list)
               /\ PathsOfCommands = SubSeq(final_install_list, 1, Len(PathsOfCommands))
        /\ NothingUncaught =>
               /\ pc # "error"
               /\ ~ENABLED NextInstall =>
                      /\ pc = "done"
                      /\ PathsOfCommands = final_install_list

\* A plan of three paths whose first two invocations exit with a non-zero
\* status has been executed to its end.
C21_Witness ==
    /\ pc = "done"
    /\ os_family = "redhat"
    /\ final_install_list = <<PlanFileB, PlanFileA, PlanFileB>>
    /\ PathsOfCommands = final_install_list
    /\ commands[1].result = "nonzero"
    /\ commands[2].result = "nonzero"

\* C22 as stated: a Debian run that has executed a plan ends with the
\* dependency fix-up pass: apt-get is the last invocation of the run and
\* no other invocation of the run is apt-get.
C22_AsStated ==
    (os_family = "debian" /\ pc = "done" /\ final_install_list # <<>>) =>
        /\ commands # <<>>
        /\ commands[Len(commands)].tool = "apt-get"
        /\ \A i \in 1..(Len(commands) - 1) : commands[i].tool # "apt-get"

----------------------------------------------------------------------------
(* OS family detection (detect_os_family).                                 *)

MaxLines == 2       \* most lines of /etc/os-release

LineIdUbuntu == <<"I", "D", "=", "u", "b", "u", "n", "t", "u">>
LineIdRhelQuoted == <<"I", "D", "=", "\"", "r", "h", "e", "l", "\"">>
LineIdDebian == <<"I", "D", "=", "d", "e", "b", "i", "a", "n">>
LineIdFedora == <<"I", "D", "=", "f", "e", "d", "o", "r", "a">>
LineIdOpensuse == <<"I", "D", "=", "o", "p", "e", "n", "s", "u", "s", "e", "-", "l", "e", "a", "p">>
LineIdSlesQuoted == <<"I", "D", "=", "\"", "s", "l", "e", "s", "\"">>
LineIdCapitalUbuntu == <<"I", "D", "=", "U", "b", "u", "n", "t", "u">>
LineLikeDebian == <<"I", "D", "_", "L", "I", "K", "E", "=", "d", "e", "b", "i", "a", "n">>
LineLikeRhelFedora == <<"I", "D", "_", "L", "I", "K", "E", "=", "\"", "r", "h", "e", "l", " ", "f", "e", "d", "o", "r", "a", "\"">>
LineName == <<"N", "A", "M", "E", "=", "\"", "U", "b", "u", "n", "t", "u", "\"">>
LineComment == <<"#", " ", "o", "s">>
LineIdCentosIndented == <<" ", " ", "I", "D", "=", "c", "e", "n", "t", "o", "s">>
LineIdSpaced == <<"I", "D", " ", "=", " ", "u", "b", "u", "n", "t", "u">>

OsReleaseLines ==
    {LineIdUbuntu, LineIdRhelQuoted, LineIdDebian, LineIdFedora, LineIdOpensuse,
     LineIdSlesQuoted, LineIdCapitalUbuntu, LineLikeDebian, LineLikeRhelFedora,
     LineName, LineComment, LineIdCentosIndented, LineIdSpaced}

SystemLinux == <<"L", "i", "n", "u", "x">>
SystemDarwin == <<"D", "a", "r", "w", "i", "n">>

InitDetect ==
    /\ pc = "detect"
    /\ variant = "script"
    /\ os_family = ""
    /\ use_rpm = FALSE
    /\ version_flag = FALSE
    /\ composite_flag = FALSE
    /\ amdgpu_family = NoText
    /\ root_is_list = TRUE
    /\ packages = <<>>
    /\ root_is_empty = (packages = <<>>)
    /\ hash_seed = 0
    /\ dest_dir_exists = TRUE
    /\ listing = <<>>
    /\ ci = 1
    /\ composite_packages = <<>>
    /\ non_composite_packages = <<>>
    /\ subset = <<>>
    /\ graph_keys = <<>>
    /\ graph = <<>>
    /\ visited = {}
    /\ sorted_list = <<>>
    /\ stack = <<>>
    /\ ki = 1
    /\ sorted_non = <<>>
    /\ sorted_composite = <<>>
    /\ sort_run = "non"
    /\ bases = <<>>
    /\ bi = 1
    /\ base = NoText
    /\ fi = 1
    /\ all_files = <<>>
    /\ matched = <<>>
    /\ final_install_list = <<>>
    /\ plan_owner = <<>>
    /\ diagnostics = <<>>
    /\ probe = <<>>
    /\ commands = <<>>
    /\ ii = 1
    /\ packages_arch = <<>>
    /\ pattern = <<>>
    /\ run_results = <<>>
    /\ os_arg = NoText
    /\ os_type = ""
    /\ os_release_exists \in BOOLEAN
    /\ os_release_lines \in (IF os_release_exists THEN Seqs(OsReleaseLines, MaxLines) ELSE {<<>>})
    /\ system_name \in (IF os_release_exists THEN {SystemLinux} ELSE {SystemLinux, SystemDarwin})
    /\ args = <<>>
    /\ gfxarch_names = {}
    /\ config = <<>>
    /\ generated = <<>>
    /\ gi = 1

\* value.strip('"')
RECURSIVE StripQuotes(_)
StripQuotes(s) ==
    IF s # <<>> /\ s[1] = "\""
    THEN StripQuotes(Tail(s))
    ELSE IF s # <<>> /\ s[Len(s)] = "\""
    THEN StripQuotes(SubSeq(s, 1, Len(s) - 1))
    ELSE s

\* The position of the first "=" of a text that holds one.
FirstEquals(s) ==
    CHOOSE i \in DOMAIN s : s[i] = "=" /\ \A j \in 1..(i - 1) : s[j] # "="

\* key, value = line.strip().split("=", 1)
KeyOf(line) == SubSeq(Strip(line), 1, FirstEquals(Strip(line)) - 1)

ValueOf(line) ==
    SubSeq(Strip(line), FirstEquals(Strip(line)) + 1, Len(Strip(line)))

\* os_release.get(key, ""): the value the last line with that key stored.
OsReleaseGet(key) ==
    LET at == {i \in DOMAIN os_release_lines :
                   /\ "=" \in Range(os_release_lines[i])
                   /\ KeyOf(os_release_lines[i]) = key}
    IN IF at = {} THEN NoText
       ELSE StripQuotes(ValueOf(os_release_lines[CHOOSE i \in at : \A j \in at : j <= i]))

\* except FileNotFoundError: "linux" if "linux" in platform.system().lower()
Fallback ==
    IF Contains(Lower(system_name), <<"l", "i", "n", "u", "x">>)
    THEN "linux"
    ELSE "unknown"

DetectOsFamily ==
    IF ~os_release_exists
    THEN Fallback
    ELSE LET os_id == Lower(OsReleaseGet(<<"I", "D">>))
             os_like == Lower(OsReleaseGet(<<"I", "D", "_", "L", "I", "K", "E">>))
         IN IF \/ Contains(os_id, <<"u", "b", "u", "n", "t", "u">>)
               \/ Contains(os_like, <<"d", "e", "b", "i", "a", "n">>)
            THEN "debian"
            ELSE IF \/ Contains(os_id, <<"r", "h", "e", "l">>)
                    \/ Contains(os_id, <<"c", "e", "n", "t", "o", "s">>)
                    \/ Contains(os_like, <<"f", "e", "d", "o", "r", "a">>)
                    \/ Contains(os_like, <<"r", "e", "d", "h", "a", "t">>)
            THEN "redhat"
            ELSE IF \/ Contains(os_id, <<"s", "u", "s", "e">>)
                    \/ Contains(os_id, <<"s", "l", "e", "s">>)
            THEN "suse"
            ELSE "unknown"

\* os_family = detect_os_family()
DetectOs ==
    /\ pc = "detect"
    /\ os_family' = DetectOsFamily
    /\ pc' = "detected"
    /\ UNCHANGED <<inputVars, buildVars, os_type, classifierVars, sorterVars, sortedVars,
                   matcherVars, plannerVars, probe, installVars, archVars>>

NextDetect == DetectOs

SpecDetect == InitDetect /\ [][NextDetect]_vars

OsFamilies == {"debian", "redhat", "suse", "unknown"}

\* C24 as stated: whatever /etc/os-release holds, and when it is absent,
\* the detected family is one of debian, redhat, suse and unknown.
C24_AsStated == pc = "detected" => os_family \in OsFamilies

----------------------------------------------------------------------------
(* C23: the architecture-family token.                                     *)

\* text.split("-", 1)[0]: what comes before the first hyphen.
BeforeFirstHyphen(text) ==
    LET hyphens == {i \in DOMAIN text : text[i] = "-"}
    IN IF hyphens = {} THEN text
       ELSE SubSeq(text, 1, (CHOOSE i \in hyphens : \A j \in hyphens : i <= j) - 1)

\* The two patterns for base b that carry the token.
PatternsWithArch(b, token) ==
    {Escape(b) \o Version3 \o <<Lit("-")>> \o Escape(token) \o <<Lit("_")>> \o Version3,
     Escape(b) \o <<Lit("-")>> \o Escape(token) \o <<Opt("_")>> \o Version3}

\* C23 as stated: the token the loader puts into an expanded package name
\* and into a filename pattern is the supplied family without everything
\* from its first hyphen on.
C23_AsStated ==
    /\ pc \in {"arch_done", "pattern"} =>
           \A i \in DOMAIN packages :
               \/ packages_arch[i] = packages[i].Package
               \/ packages_arch[i] = packages[i].Package \o <<"-">>
                                         \o BeforeFirstHyphen(amdgpu_family)
    /\ pc = "pattern" =>
           pattern \in PatternsWithoutArch(base)
                           \cup PatternsWithArch(base, BeforeFirstHyphen(amdgpu_family))

----------------------------------------------------------------------------
(* C25, C26: the list find_packages_for_base returns.                      *)

\* C25 as stated: the returned list holds each path at most once.
C25_AsStated == pc = "found" => IsInjective(matched)

\* How often the matcher appends the path of file f: once for each shape
\* the flag admits and the filename has.
TimesMatched(f) ==
    (IF f \in FilesOfShape(base, TRUE) THEN 1 ELSE 0)
    + (IF ~version_flag /\ f \in FilesOfShape(base, FALSE) THEN 1 ELSE 0)

\* x is before y, or equal to it, in the order of the sort key: versioned
\* paths first, then ascending by path.
KeyLeq(x, y) ==
    \/ x = y
    \/ IsVersionedPath(x) /\ ~IsVersionedPath(y)
    \/ IsVersionedPath(x) = IsVersionedPath(y) /\ NameLeq(x, y)

\* C26: the list returned for a base is fixed by the set of directory
\* entries, the manifest and the flags, whatever the order in which the
\* directory was enumerated: it holds the path of each entry as often as
\* the entry's name and the flag say, and nothing else, and it is in the
\* order of the sort key, which leaves one place to every path.
C26_ListingOrderDoesNotMatter ==
    pc = "found" =>
        /\ \A f \in Range(listing) : Count(matched, PathJoin(DestDir, f)) = TimesMatched(f)
        /\ Range(matched) \subseteq {PathJoin(DestDir, f) : f \in Range(listing)}
        /\ \A i, j \in DOMAIN matched : i < j => KeyLeq(matched[i], matched[j])
        /\ \A x, y \in Range(matched) : KeyLeq(x, y) /\ KeyLeq(y, x) => x = y

\* The directory was enumerated in the opposite order of the returned list.
C26_Witness ==
    /\ pc = "found"
    /\ Len(listing) = 2
    /\ matched = <<PathJoin(DestDir, listing[2]), PathJoin(DestDir, listing[1])>>

----------------------------------------------------------------------------
(* Specification of the matcher over a directory that also holds the       *)
(* artifacts of packages whose names extend the base with a hyphen.        *)

BaseRocm == <<"r", "o", "c", "m">>
V100 == <<"1", ".", "0", ".", "0">>
SuffixCore == <<"-", "c", "o", "r", "e">>

\* Artifacts of rocm, of rocm-core, of rocm-dev and of rocm-g7, in the
\* non-versioned and the versioned shape, and the artifact of rocm for
\* the family g.
ExtendFiles ==
    {BaseRocm \o <<"_">> \o V100 \o DebExt,
     BaseRocm \o V100 \o <<"_">> \o V100 \o DebExt,
     BaseRocm \o SuffixCore \o <<"_">> \o V100 \o DebExt,
     BaseRocm \o SuffixCore \o V100 \o <<"_">> \o V100 \o DebExt,
     BaseRocm \o DevSuffix \o <<"_">> \o V100 \o RpmExt,
     BaseRocm \o <<"-">> \o ArchG \o <<"_">> \o V100 \o DebExt,
     BaseRocm \o <<"-">> \o ArchG7 \o <<"_">> \o V100 \o DebExt,
     BaseRocm \o <<"-">> \o ArchG7 \o V100 \o <<"_">> \o V100 \o DebExt}

InitExtend ==
    /\ pc = "find"
    /\ variant \in {"script", "loader"}
    /\ os_family = "unknown"
    /\ use_rpm = FALSE
    /\ version_flag \in BOOLEAN
    /\ composite_flag = FALSE
    /\ amdgpu_family \in (IF variant = "loader" THEN {NoText, ArchG} ELSE {NoText})
    /\ root_is_list = TRUE
    /\ packages = <<Pkg(BaseRocm, NoText, <<>>, <<>>, TextTrue)>>
    /\ root_is_empty = (packages = <<>>)
    /\ hash_seed = 0
    /\ dest_dir_exists = TRUE
    /\ listing \in {l \in Seqs(ExtendFiles, MaxFiles) : IsInjective(l)}
    /\ ci = 1
    /\ composite_packages = <<>>
    /\ non_composite_packages = <<>>
    /\ subset = <<>>
    /\ graph_keys = <<>>
    /\ graph = <<>>
    /\ visited = {}
    /\ sorted_list = <<>>
    /\ stack = <<>>
    /\ ki = 1
    /\ sorted_non = <<>>
    /\ sorted_composite = <<>>
    /\ sort_run = "non"
    /\ bases = <<>>
    /\ bi = 1
    /\ base = BaseRocm
    /\ fi = 1
    /\ all_files = <<>>
    /\ matched = <<>>
    /\ final_install_list = <<>>
    /\ plan_owner = <<>>
    /\ diagnostics = <<>>
    /\ probe = <<>>
    /\ commands = <<>>
    /\ ii = 1
    /\ packages_arch = <<>>
    /\ pattern = <<>>
    /\ run_results = <<>>
    /\ os_arg = NoText
    /\ os_type = ""
    /\ os_release_exists = TRUE
    /\ os_release_lines = <<>>
    /\ system_name = NoText
    /\ args = <<>>
    /\ gfxarch_names = {}
    /\ config = <<>>
    /\ generated = <<>>
    /\ gi = 1

NextExtend == FindStart \/ FindFile \/ FindReturn

SpecExtend == InitExtend /\ [][NextExtend]_vars

\* The filename is the base, a hyphen and a suffix that does not begin
\* with the family token of the run.
ExtendsBase(f) ==
    /\ StartsWith(f, base \o <<"-">>)
    /\ amdgpu_family # NoText => ~StartsWith(f, base \o <<"-">> \o amdgpu_family)

----------------------------------------------------------------------------
(* Specification of a run of install_packages.py from its command line.    *)

TextDebian == <<"d", "e", "b", "i", "a", "n">>
TextCapitalDebian == <<"D", "e", "b", "i", "a", "n">>
TextRedhat == <<"r", "e", "d", "h", "a", "t">>
TextSuse == <<"s", "u", "s", "e">>

\* The family a text names, as the comparisons of the planner see it.
FamilyNamed(text) ==
    CASE text = TextDebian -> "debian"
      [] text = TextRedhat -> "redhat"
      [] text = TextSuse -> "suse"
      [] OTHER -> "other"

MainManifests ==
    {<<Pkg(PlanADevel, NoText, <<>>, <<>>, NoText),
       Pkg(PlanB, NoText, <<PlanADevel>>, <<>>, NoText)>>,
     <<Pkg(PlanA, NoText, <<>>, <<>>, NoText)>>}

MainListing ==
    <<PlanFileB, PlanFileADevel, PlanFileA, PlanFileADev, PlanFileARpm, PlanFileAVersioned>>

InitMain ==
    /\ pc = "main"
    /\ variant = "script"
    /\ os_family = ""
    /\ use_rpm = FALSE
    /\ version_flag \in BOOLEAN
    /\ composite_flag = FALSE
    /\ amdgpu_family = NoText
    /\ root_is_list = TRUE
    /\ packages \in MainManifests
    /\ root_is_empty = (packages = <<>>)
    /\ hash_seed = 0
    /\ dest_dir_exists \in BOOLEAN
    /\ listing = MainListing
    /\ ci = 1
    /\ composite_packages = <<>>
    /\ non_composite_packages = <<>>
    /\ subset = <<>>
    /\ graph_keys = <<>>
    /\ graph = <<>>
    /\ visited = {}
    /\ sorted_list = <<>>
    /\ stack = <<>>
    /\ ki = 1
    /\ sorted_non = <<>>
    /\ sorted_composite = <<>>
    /\ sort_run = "non"
    /\ bases = <<>>
    /\ bi = 1
    /\ base = NoText
    /\ fi = 1
    /\ all_files = <<>>
    /\ matched = <<>>
    /\ final_install_list = <<>>
    /\ plan_owner = <<>>
    /\ diagnostics = <<>>
    /\ probe = <<>>
    /\ commands = <<>>
    /\ ii = 1
    /\ packages_arch = <<>>
    /\ pattern = <<>>
    /\ run_results = <<>>
    /\ os_arg \in {NoText, TextDebian, TextCapitalDebian, TextRedhat, TextSuse}
    /\ os_type = ""
    /\ os_release_exists = TRUE
    /\ os_release_lines \in {<<LineIdUbuntu>>, <<LineIdRhelQuoted, LineLikeRhelFedora>>,
                            <<LineIdSlesQuoted>>, <<LineName>>}
    /\ system_name = SystemLinux
    /\ args = <<>>
    /\ gfxarch_names = {}
    /\ config = <<>>
    /\ generated = <<>>
    /\ gi = 1

\* __main__ up to the call: os_type = args.os.lower() if args.os else
\* detect_os_family(); the run exits with status 1 without the directory.
Main ==
    /\ pc = "main"
    /\ os_type' = IF os_arg # NoText THEN FamilyNamed(Lower(os_arg)) ELSE DetectOsFamily
    /\ pc' = IF dest_dir_exists THEN "call" ELSE "exit"
    /\ UNCHANGED <<inputVars, buildVars, os_family, classifierVars, sorterVars, sortedVars,
                   matcherVars, plannerVars, probe, installVars, archVars>>

\* install_packages(dest_dir, args.package_order, version_flag, composite_flag):
\* os_type is not among the arguments, and the function detects the
\* family itself.
InstallPackagesCall ==
    /\ pc = "call"
    /\ os_family' = DetectOsFamily
    /\ pc' = "start"
    /\ UNCHANGED <<inputVars, buildVars, os_type, classifierVars, sorterVars, sortedVars,
                   matcherVars, plannerVars, probe, installVars, archVars>>

NextMain == Main \/ InstallPackagesCall \/ NextPlan

SpecMain == InitMain /\ [][NextMain]_vars

\* The package manager of a family.
ManagerOf(family) ==
    CASE family = "debian" -> "dpkg"
      [] family = "redhat" -> "rpm"
      [] family = "suse" -> "zypper"
      [] OTHER -> ""

\* C28 as stated: when --os is given, the family it names decides the
\* package manager of every per-path command, whether the run ends with
\* the Debian fix-up, and whether a-devel is looked up as a-dev.
C28_AsStated ==
    (os_arg # NoText /\ pc \notin {"main", "exit"}) =>
        /\ \A i \in DOMAIN commands :
               commands[i].tool = IF commands[i].path = NoText THEN "apt-get"
                                  ELSE ManagerOf(os_type)
        /\ (pc = "done" /\ commands # <<>>) =>
               (commands[Len(commands)].tool = "apt-get") = (os_type = "debian")
        /\ (pc \in AfterRewrite /\ PlanADevel \in ManifestNames) =>
               (BaseADev \in Range(bases)) = (os_type = "debian")

----------------------------------------------------------------------------
(* The packaging run of build_package.py: run() builds the PackageConfig   *)
(* and every package of pkg_list gets a non-versioned (meta) and a         *)
(* versioned package per format.  Of each generated control file / spec    *)
(* file the model keeps the package name and the dependency string.        *)
(* packaging_utils is not part of the sources at hand: the answer of       *)
(* check_for_gfxarch is an input (gfxarch_names), get_package_info(name)   *)
(* is the manifest entry of that name and get_package_list() the names of  *)
(* the manifest.  The run is modelled without --pkg-names and with         *)
(* artifacts present for every package.                                    *)

DEFAULT_INSTALL_PREFIX == <<"/", "o", "p", "t", "/", "r", "o", "c", "m">>
PrefixUsr == <<"/", "u", "s", "r">>
TextDeb == <<"d", "e", "b">>
TextCapitalDeb == <<"D", "E", "B">>
TextRpm == <<"r", "p", "m">>
TextAll == <<"a", "l", "l">>
PkgTypes == {TextDeb, TextCapitalDeb, TextRpm, TextAll}
TargetCapitalG == <<"G", "-", "d", "c">>

BuildManifests ==
    {<<Pkg(PlanA, NoText, <<>>, <<>>, NoText),
       Pkg(PlanADevel, NoText, <<PlanA, PlanB>>, <<PlanA, PlanB>>, NoText)>>,
     <<Pkg(PlanADevel, NoText, <<>>, <<>>, NoText)>>}

InitBuild ==
    /\ pc = "run"
    /\ variant = "script"
    /\ os_family = ""
    /\ use_rpm = FALSE
    /\ version_flag = FALSE
    /\ composite_flag = FALSE
    /\ amdgpu_family = NoText
    /\ root_is_list = TRUE
    /\ packages \in BuildManifests
    /\ root_is_empty = (packages = <<>>)
    /\ hash_seed = 0
    /\ dest_dir_exists = TRUE
    /\ listing = <<>>
    /\ ci = 1
    /\ composite_packages = <<>>
    /\ non_composite_packages = <<>>
    /\ subset = <<>>
    /\ graph_keys = <<>>
    /\ graph = <<>>
    /\ visited = {}
    /\ sorted_list = <<>>
    /\ stack = <<>>
    /\ ki = 1
    /\ sorted_non = <<>>
    /\ sorted_composite = <<>>
    /\ sort_run = "non"
    /\ bases = <<>>
    /\ bi = 1
    /\ base = NoText
    /\ fi = 1
    /\ all_files = <<>>
    /\ matched = <<>>
    /\ final_install_list = <<>>
    /\ plan_owner = <<>>
    /\ diagnostics = <<>>
    /\ probe = <<>>
    /\ commands = <<>>
    /\ ii = 1
    /\ packages_arch = <<>>
    /\ pattern = <<>>
    /\ run_results = <<>>
    /\ os_arg = NoText
    /\ os_type = ""
    /\ os_release_exists = TRUE
    /\ os_release_lines = <<>>
    /\ system_name = NoText
    /\ args \in [install_prefix : {DEFAULT_INSTALL_PREFIX, PrefixUsr},
                rocm_version : {V100},
                pkg_type : PkgTypes,
                target : {ArchGDc, TargetCapitalG},
                rpath_pkg : BOOLEAN]
    /\ gfxarch_names \in SUBSET {PlanA, PlanADevel}
    /\ config = <<>>
    /\ generated = <<>>
    /\ gi = 1

\* The PackageConfig of the run.
Config == config[1]

\* check_for_gfxarch(pkg_name)
CheckForGfxarch(pkg_name) == pkg_name \in gfxarch_names

\* get_package_list() and, without --pkg-names, parse_input_package_list
GetPackageList == [i \in DOMAIN packages |-> packages[i].Package]

\* get_package_info(pkg_name)
GetPackageInfo(pkg_name) ==
    packages[CHOOSE i \in DOMAIN packages : packages[i].Package = pkg_name]

\* debian_replace_devel_name: pkg_name.replace("-devel", "-dev")
RECURSIVE DebianReplaceDevelName(_)
DebianReplaceDevelName(pkg_name) ==
    IF Len(pkg_name) < Len(DevelSuffix) THEN pkg_name
    ELSE IF StartsWith(pkg_name, DevelSuffix)
         THEN DevSuffix \o DebianReplaceDevelName(
                              SubSeq(pkg_name, Len(DevelSuffix) + 1, Len(pkg_name)))
         ELSE <<Head(pkg_name)>> \o DebianReplaceDevelName(Tail(pkg_name))

\* update_package_name: pkg_suffix
PkgSuffix(cfg) ==
    IF cfg.enable_rpath THEN <<"-", "r", "p", "a", "t", "h">> \o cfg.rocm_version
    ELSE IF cfg.versioned_pkg THEN cfg.rocm_version
    ELSE NoText

\* update_package_name
UpdatePackageName(pkg_name, cfg) ==
    LET named == IF CheckForGfxarch(pkg_name)
                 THEN pkg_name \o PkgSuffix(cfg) \o <<"-">>
                          \o BeforeFirstHyphen(Lower(cfg.gfx_arch))
                 ELSE pkg_name \o PkgSuffix(cfg)
    IN  IF Lower(cfg.pkg_type) = TextDeb THEN DebianReplaceDevelName(named)
        ELSE named

\* ", ".join
RECURSIVE JoinComma(_)
JoinComma(texts) ==
    IF texts = <<>> THEN NoText
    ELSE IF Len(texts) = 1 THEN texts[1]
    ELSE texts[1] \o <<",", " ">> \o JoinComma(Tail(texts))

\* convert_to_versiondependency
ConvertToVersiondependency(dependency_list, cfg) ==
    JoinComma([i \in DOMAIN dependency_list |->
                  IF dependency_list[i] \in Range(GetPackageList)
                  THEN UpdatePackageName(dependency_list[i], cfg)
                  ELSE dependency_list[i]])

\* generate_control_file: the name and the Depends of the control file
ControlFile(pkg_info, cfg) ==
    LET pkg_name == UpdatePackageName(pkg_info.Package, cfg)
        depends == IF cfg.versioned_pkg
                   THEN ConvertToVersiondependency(pkg_info.DEBDepends, cfg)
                   ELSE pkg_name \o cfg.rocm_version
    IN  [format |-> "deb", versioned |-> cfg.versioned_pkg,
         package |-> pkg_info.Package, pkg_name |-> pkg_name,
         depends |-> DebianReplaceDevelName(depends)]

\* generate_spec_file: the name and the Requires of the spec file
SpecFile(pkg_name, cfg) ==
    LET pkginfo == GetPackageInfo(pkg_name)
        requires == IF cfg.versioned_pkg
                    THEN ConvertToVersiondependency(pkginfo.RPMRequires, cfg)
                    ELSE pkg_name \o cfg.rocm_version
    IN  [format |-> "rpm", versioned |-> cfg.versioned_pkg,
         package |-> pkg_name, pkg_name |-> UpdatePackageName(pkg_name, cfg),
         depends |-> requires]

\* run: the creators a package goes through, in the order of package_creators
Creators(cfg) ==
    IF cfg.pkg_type # NoText /\ Lower(cfg.pkg_type) = TextDeb THEN <<"deb">>
    ELSE IF cfg.pkg_type # NoText /\ Lower(cfg.pkg_type) = TextRpm THEN <<"rpm">>
    ELSE <<"deb", "rpm">>

\* Where the run goes for package i of pkg_list.
PackageStart(cfg, i) ==
    IF i > Len(GetPackageList) THEN "done"
    ELSE IF Creators(cfg)[1] = "deb" THEN "nonversioned_deb"
    ELSE "nonversioned_rpm"

\* run, up to the loop: prefix is bound only for the default prefix, and
\* PackageConfig(install_prefix=prefix) raises UnboundLocalError otherwise.
Run ==
    /\ pc = "run"
    /\ IF args.install_prefix = DEFAULT_INSTALL_PREFIX
       THEN LET cfg == [pkg_type |-> args.pkg_type,
                        rocm_version |-> args.rocm_version,
                        install_prefix |-> args.install_prefix \o <<"-">>
                                               \o args.rocm_version,
                        gfx_arch |-> args.target,
                        enable_rpath |-> args.rpath_pkg,
                        versioned_pkg |-> TRUE]
            IN  /\ config' = <<cfg>>
                /\ pc' = PackageStart(cfg, gi)
       ELSE /\ pc' = "error"
            /\ UNCHANGED config
    /\ UNCHANGED <<configVars, buildInputs, generated, gi, classifierVars, sorterVars,
                   sortedVars, matcherVars, plannerVars, probe, installVars, archVars>>

\* create_nonversioned_deb_package: versioned_pkg is False while the
\* control file is generated and True again afterwards.
CreateNonversionedDeb ==
    /\ pc = "nonversioned_deb"
    /\ generated' = Append(generated,
           ControlFile(GetPackageInfo(GetPackageList[gi]),
                       [Config EXCEPT !.versioned_pkg = FALSE]))
    /\ config' = <<[Config EXCEPT !.versioned_pkg = TRUE]>>
    /\ pc' = "versioned_deb"
    /\ UNCHANGED <<configVars, buildInputs, gi, classifierVars, sorterVars,
                   sortedVars, matcherVars, plannerVars, probe, installVars, archVars>>

\* create_versioned_deb_package, then the next creator or the next package
CreateVersionedDeb ==
    /\ pc = "versioned_deb"
    /\ generated' = Append(generated,
           ControlFile(GetPackageInfo(GetPackageList[gi]),
                       [Config EXCEPT !.versioned_pkg = TRUE]))
    /\ config' = <<[Config EXCEPT !.versioned_pkg = TRUE]>>
    /\ IF Len(Creators(Config)) = 2
       THEN pc' = "nonversioned_rpm" /\ UNCHANGED gi
       ELSE pc' = PackageStart(Config, gi + 1) /\ gi' = gi + 1
    /\ UNCHANGED <<configVars, buildInputs, classifierVars, sorterVars,
                   sortedVars, matcherVars, plannerVars, probe, installVars, archVars>>

\* create_nonversioned_rpm_package
CreateNonversionedRpm ==
    /\ pc = "nonversioned_rpm"
    /\ generated' = Append(generated,
           SpecFile(GetPackageList[gi], [Config EXCEPT !.versioned_pkg = FALSE]))
    /\ config' = <<[Config EXCEPT !.versioned_pkg = TRUE]>>
    /\ pc' = "versioned_rpm"
    /\ UNCHANGED <<configVars, buildInputs, gi, classifierVars, sorterVars,
                   sortedVars, matcherVars, plannerVars, probe, installVars, archVars>>

\* create_versioned_rpm_package, then the next package
CreateVersionedRpm ==
    /\ pc = "versioned_rpm"
    /\ generated' = Append(generated,
           SpecFile(GetPackageList[gi], [Config EXCEPT !.versioned_pkg = TRUE]))
    /\ config' = <<[Config EXCEPT !.versioned_pkg = TRUE]>>
    /\ pc' = PackageStart(Config, gi + 1)
    /\ gi' = gi + 1
    /\ UNCHANGED <<configVars, buildInputs, classifierVars, sorterVars,
                   sortedVars, matcherVars, plannerVars, probe, installVars, archVars>>

NextBuild ==
    \/ Run
    \/ CreateNonversionedDeb
    \/ CreateVersionedDeb
    \/ CreateNonversionedRpm
    \/ CreateVersionedRpm

SpecBuild == InitBuild /\ [][NextBuild]_vars

\* C29 as stated: the dependency of every generated meta package is the
\* name of the versioned package generated for the same base in the same
\* format.
C29_AsStated ==
    \A i, j \in DOMAIN generated :
        (/\ ~generated[i].versioned
         /\ generated[j].versioned
         /\ generated[i].format = generated[j].format
         /\ generated[i].package = generated[j].package)
            => generated[i].depends = generated[j].pkg_name

\* C30 as stated: run builds the configuration for every --install-prefix,
\* with the default prefix extended by "-" and the version and any other
\* prefix taken as it is, and raises no error.
C30_AsStated ==
    pc # "run" =>
        /\ pc # "error"
        /\ config # <<>>
        /\ Config.install_prefix =
               IF args.install_prefix = DEFAULT_INSTALL_PREFIX
               THEN DEFAULT_INSTALL_PREFIX \o <<"-">> \o args.rocm_version
               ELSE args.install_prefix

====
